---- MODULE Spec2Model ----
(***************************************************************************)
(* R-EMS orchestration core: the per-grid redundancy supervisor            *)
(* (crates/r-ems-redundancy), the peripheral bus gate and the controller   *)
(* and supervisor tasks of the orchestration kernel                        *)
(* (crates/r-ems-orchestrator), and the supervisor task of the core        *)
(* orchestrator that records failovers in the event log                    *)
(* (crates/r-ems-core).                                                    *)
(*                                                                         *)
(* Time.  The code only ever compares `now - last_heartbeat` with a        *)
(* threshold, and every caller passes Instant::now(), which is monotonic.  *)
(* last_heartbeat is therefore kept as the time elapsed since the          *)
(* heartbeat was recorded (NoHeartbeat when none was recorded); Advance    *)
(* lets one unit of time pass.  Elapsed time saturates one unit above the  *)
(* watchdog timeout, where every comparison of the code is already         *)
(* decided.                                                                *)
(*                                                                         *)
(* failure_count is written by ControllerRuntimeState::evaluate and read   *)
(* only by its getter; no decision depends on it and it is not modelled.   *)
(* The HeartbeatStatus returned by heartbeat() is logged and stored by its *)
(* callers and decides nothing; it is not modelled either.                 *)
(***************************************************************************)
EXTENDS Integers, Sequences, FiniteSets, TLC

\* ------------------------------------------------------------------ bounds
\* failover_order is a u32; the model draws it from 0..MaxFailoverOrder.
MaxFailoverOrder == 1
\* A controller task runs at most MaxTicks iterations of its loop.
MaxTicks == 2
\* An event log writer is asked to append at most MaxAppends entries.
MaxAppends == 3
\* captured_at, in seconds, is drawn from 0..MaxClock.
MaxClock == 2
\* retain_last of the snapshot configuration is drawn from 0..MaxRetain.
MaxRetain == 2
\* A snapshot store is asked to write at most MaxWrites snapshots.
MaxWrites == 4
\* The handle's API (shutdown, emergency_stop, kill_controller) is called at
\* most MaxCalls times.
MaxCalls == 3
\* PeripheralBus::emergency_stop is called at most MaxStops times.
MaxStops == 1
\* PeripheralBus::commit is called successfully at most MaxCommits times.
MaxCommits == 2
\* The period of an Interval is drawn from 1..MaxPeriod clock units.
MaxPeriod == 2
\* The clock of an Interval runs from 0 (its creation) to MaxNow.
MaxNow == 6
\* run_iteration calls made on one FailoverStressRunner.
MaxIterations == 2
\* Actions of one chaos scenario.
MaxActions == 2
\* RestartPolicy: max_attempts, base_delay and jitter (in half milliseconds).
MaxAttempts == 11
MaxBaseDelay == 1
MaxJitter == 2
\* Length of the list of reallocation candidates.
MaxCandidates == 2
\* DegradationPolicy thresholds, active controllers passed to evaluate, and
\* evaluate calls on one tracker.
MaxThreshold == 2
MaxActive == 3
MaxEvaluations == 3
\* Frames of a scenario file, next_frame calls on one engine, and the
\* monotonic clock of the simulation engines.
MaxFrames == 2
MaxFrameCalls == 2
MaxWall == 2

\* --------------------------------------------------------------- constants
\* watchdog_timeout of the test fixtures; it is the model's unit of time.
WatchdogTimeout == 1
MaxElapsed == WatchdogTimeout + 1
\* The largest exponent of backoff_delay.
ExponentCap == 8

\* Option::None of a controller id.
None == "None"
\* Option::None of last_heartbeat.
NoHeartbeat == 0 - 1
SYSTEM == "SYSTEM"

\* Controller ids of the supervisor-level specification.
Ids == {"c1", "c2", "c3"}
\* Controller tasks of the grid-level specifications.
Tasks == {"primary", "secondary"}
AllIds == Ids \cup Tasks

Roles == {"Primary", "Secondary", "Follower", "Observer"}

role_priority(role) ==
  CASE role = "Primary" -> 0
    [] role = "Secondary" -> 1
    [] role = "Follower" -> 2
    [] role = "Observer" -> 3

\* Ordering of std::cmp on a pair of integers, lexicographic (then_with).
cmp_pair(a1, a2, b1, b2) ==
  IF a1 < b1 THEN "Less"
  ELSE IF a1 > b1 THEN "Greater"
  ELSE IF a2 < b2 THEN "Less"
  ELSE IF a2 > b2 THEN "Greater"
  ELSE "Equal"

context_cmp(a, b) ==
  cmp_pair(role_priority(a.role), a.failover_order,
           role_priority(b.role), b.failover_order)

\* Variant of priority_cmp that compares failover_order before the role.
priority_cmp_order_first(a, b) ==
  cmp_pair(a.context.failover_order, role_priority(a.context.role),
           b.context.failover_order, role_priority(b.context.role))

priority_cmp(a, b) ==
  cmp_pair(role_priority(a.context.role), a.context.failover_order,
           role_priority(b.context.role), b.context.failover_order)

ControllerContext(id, role, order) ==
  [controller_id |-> id, role |-> role, failover_order |-> order,
   watchdog_timeout |-> WatchdogTimeout]

\* The roles each id of the supervisor-level specification can be configured
\* with: two neighbouring roles, so that all four roles occur and any two
\* ids can tie.
RolesOf ==
  [c1 |-> {"Primary", "Secondary"},
   c2 |-> {"Secondary", "Follower"},
   c3 |-> {"Follower", "Observer"}]

Contexts(id) ==
  {ControllerContext(id, r, o) : r \in RolesOf[id], o \in 0..MaxFailoverOrder}

\* Configuration of the two controller tasks of a grid (test fixtures).
TaskConfig ==
  [primary |-> ControllerContext("primary", "Primary", 0),
   secondary |-> ControllerContext("secondary", "Secondary", 1)]

VARIABLES
  active,        \* SupervisorInner.active: a controller id or None
  controllers,   \* SupervisorInner.controllers: id -> ControllerRuntimeState
  regOrder,      \* history (TieSpec): ids in order of first registration
  evaluated,     \* history: evaluate has been called
  pc,            \* position of each controller task
  tick,          \* tick counter of each controller task
  records,       \* SnapshotStoreStub.records
  events,        \* PeripheralBus.events
  timely,        \* history: no running task has let its watchdog expire
  pending,       \* core supervisor task: the FailoverEvent it still has to record
  log,           \* the failover entries the grid's event log contains
  lost,          \* the failover entries whose append to the event log failed
  standby_at_exit, \* history: when the primary's task exited the primary was
                 \* active and the secondary registered
  file,          \* the lines of the event log file (<<>>: no file yet)
  writer,        \* the EventLogWriter of the PersistenceBridge, or NoWriter
  acks,          \* history: the record_event calls that returned Ok, in order
  snap_file,     \* the bytes of one snapshot file, or NoFile
  saved,         \* history: the ControllerState last passed to save_snapshot
  retain_last,   \* SnapshotStore.retain_last, or NoStore
  dir,           \* the file names in one controller's snapshot directory,
                 \* each standing for its leading captured_at.timestamp()
  clock,         \* wall clock, in whole seconds
  writes,        \* history: number of SnapshotStore::write calls that returned Ok
  stored,        \* per controller: what load_latest finds in its directory
  calls,         \* history, per controller task: the calls of its run, in order
  failed,        \* history, per controller task: a write or append of a tick failed
  ktask,         \* kernel: per grid and task, "running" or "exited"
  shutdown_rx,   \* kernel: per task, the unread messages of its shutdown receiver
  kill_rx,       \* kernel: per controller task, its kill watch has changed unseen
  handle,        \* kernel: per task, its JoinHandle has not been taken yet
  kcontrollers,  \* kernel: GridRuntimeHandle.controllers, the ids per grid
  kticks,        \* kernel, history: loop bodies run by the tasks of each grid
  estops,        \* kernel, history: EmergencyStop events pushed on each grid's bus
  api,           \* kernel: the call of the handle's API in progress
  boot,          \* r-ems-core: the configuration started and what start returned
  ticker,        \* one tokio Interval with the clock it runs on, or NoTicker
  runner,        \* r-ems-resilience: the FailoverStressRunner, or NoRunner
  chaos,         \* r-ems-resilience: the ChaosEngine and the records of execute
  healer,        \* r-ems-resilience: the SelfHealingManager and its call in progress
  tracker,       \* r-ems-resilience: the DegradationTracker and what evaluate last did
  sim            \* r-ems-sim: two SimulationEngines and the clock they share

supVars == <<active, controllers>>
taskVars == <<pc, tick, records, events, timely>>
logVars == <<file, writer, acks>>
snapVars == <<snap_file, saved>>
storeVars == <<retain_last, dir, clock, writes>>
runVars == <<stored, calls, failed>>
kernelVars == <<ktask, shutdown_rx, kill_rx, handle, kcontrollers, kticks, estops, api>>
harnessVars == <<runner, chaos, healer>>
auxVars == <<tracker, sim>>
coreVars == <<pending, log, lost, standby_at_exit, logVars, snapVars, storeVars,
              runVars, kernelVars, boot, ticker, harnessVars, auxVars>>
vars == <<active, controllers, regOrder, evaluated, pc, tick, records, events, timely,
          pending, log, lost, standby_at_exit, file, writer, acks,
          snap_file, saved, retain_last, dir, clock, writes, stored, calls, failed,
          ktask, shutdown_rx, kill_rx, handle, kcontrollers, kticks, estops, api,
          boot, ticker, runner, chaos, healer, tracker, sim>>

\* ControllerRuntimeState::new
NewRuntimeState(context) ==
  [context |-> context, last_heartbeat |-> NoHeartbeat, is_active |-> FALSE]

Registered == DOMAIN controllers

\* RedundancySupervisor::is_active
is_active(controller_id) == active = controller_id

\* ------------------------------------------------------ supervisor: register
\* Variant of should_activate that also preempts on equal priority.
should_activate_on_equal(context) ==
  IF active = None THEN TRUE
  ELSE IF active = context.controller_id THEN TRUE
  ELSE IF active \in Registered
       THEN context_cmp(context, controllers[active].context) # "Greater"
       ELSE TRUE

should_activate(context) ==
  IF active = None THEN TRUE
  ELSE IF active = context.controller_id THEN TRUE
  ELSE IF active \in Registered
       THEN context_cmp(context, controllers[active].context) = "Less"
       ELSE TRUE

\* Variant of register that leaves the flag of the previous active set.
register_keeps_previous(context) ==
  LET id == context.controller_id
      act == should_activate(context)
      inserted == IF id \in Registered THEN controllers
                  ELSE [x \in Registered \cup {id} |->
                          IF x = id THEN NewRuntimeState(context)
                          ELSE controllers[x]]
  IN /\ active' = IF act THEN id ELSE active
     /\ controllers' =
          [inserted EXCEPT ![id].context = context,
                           ![id].is_active = IF act THEN TRUE ELSE @]

register(context) ==
  LET id == context.controller_id
      act == should_activate(context)
      inserted == IF id \in Registered THEN controllers
                  ELSE [x \in Registered \cup {id} |->
                          IF x = id THEN NewRuntimeState(context)
                          ELSE controllers[x]]
      demoted == IF act /\ active # None /\ active \in DOMAIN inserted
                 THEN [inserted EXCEPT ![active].is_active = FALSE]
                 ELSE inserted
  IN /\ active' = IF act THEN id ELSE active
     /\ controllers' =
          [demoted EXCEPT ![id].context = context,
                          ![id].is_active = IF act THEN TRUE ELSE @]

\* ----------------------------------------------------- supervisor: heartbeat
\* ControllerRuntimeState::record_heartbeat: last_heartbeat = Some(now).
record_heartbeat(state) == [state EXCEPT !.last_heartbeat = 0]

\* Variant of heartbeat that also makes the caller the active controller.
heartbeat_takes_role(controller_id) ==
  /\ controllers' =
       IF controller_id \in Registered
       THEN [x \in Registered |->
               IF x = controller_id
               THEN [record_heartbeat(controllers[x]) EXCEPT !.is_active = TRUE]
               ELSE [controllers[x] EXCEPT !.is_active = FALSE]]
       ELSE controllers
  /\ active' = IF controller_id \in Registered THEN controller_id ELSE active

\* Variant of heartbeat with which a controller that ranks before the
\* active one takes the role back.
heartbeat_reclaims(controller_id) ==
  IF /\ controller_id \in Registered
     /\ active \in Registered
     /\ context_cmp(controllers[controller_id].context,
                    controllers[active].context) = "Less"
  THEN /\ controllers' =
            [x \in Registered |->
               IF x = controller_id
               THEN [record_heartbeat(controllers[x]) EXCEPT !.is_active = TRUE]
               ELSE [controllers[x] EXCEPT !.is_active = FALSE]]
       /\ active' = controller_id
  ELSE /\ controllers' =
            IF controller_id \in Registered
            THEN [controllers EXCEPT ![controller_id] = record_heartbeat(@)]
            ELSE controllers
       /\ UNCHANGED active

\* RedundancySupervisor::heartbeat: the statuses it can return. The
\* heartbeat interval that separates OnTime from Late is not modelled.
heartbeat_status(controller_id) ==
  IF controller_id \notin Registered THEN {"Missing"}
  ELSE IF controllers[controller_id].last_heartbeat = NoHeartbeat THEN {"OnTime"}
  ELSE {"OnTime", "Late"}

heartbeat(controller_id) ==
  /\ controllers' =
       IF controller_id \in Registered
       THEN [controllers EXCEPT ![controller_id] = record_heartbeat(@)]
       ELSE controllers
  /\ UNCHANGED active

\* ------------------------------------------------------ supervisor: evaluate
\* Variant of state_evaluate whose comparison with the watchdog is inclusive.
state_evaluate_inclusive(state) ==
  IF state.last_heartbeat = NoHeartbeat THEN "Missing"
  ELSE IF state.last_heartbeat >= state.context.watchdog_timeout THEN "Missing"
  ELSE "OnTime"

\* Variant of state_evaluate for which a controller without a recorded
\* heartbeat is not Missing.
state_evaluate_lenient(state) ==
  IF state.last_heartbeat = NoHeartbeat THEN "OnTime"
  ELSE IF state.last_heartbeat > state.context.watchdog_timeout THEN "Missing"
  ELSE "OnTime"

\* ControllerRuntimeState::evaluate: Missing or OnTime.
state_evaluate(state) ==
  IF state.last_heartbeat = NoHeartbeat THEN "Missing"
  ELSE IF state.last_heartbeat > state.context.watchdog_timeout THEN "Missing"
  ELSE "OnTime"

\* Variant of Candidates that ignores exclude.
Candidates_no_exclude(ctrls, exclude) ==
  {id \in DOMAIN ctrls : ~ctrls[id].is_active}

\* Candidates of promote_next_locked: the filter of the iterator.
Candidates(ctrls, exclude) ==
  {id \in DOMAIN ctrls : ~ctrls[id].is_active /\ id # exclude}

\* The results min_by can return: it returns the first minimal element in
\* the iteration order of the HashMap, and that order is unspecified.
MinCandidates(ctrls, exclude) ==
  {id \in Candidates(ctrls, exclude) :
     \A o \in Candidates(ctrls, exclude) :
        priority_cmp(ctrls[o], ctrls[id]) # "Less"}

FailoverEvent(id, reason) == [activated_controller |-> id, reason |-> reason]
\* Option::None of a FailoverEvent.
NoEvent == [activated_controller |-> None, reason |-> None]

\* Variant of promote_next_locked that leaves the flag of the promoted
\* controller as it is.
promote_next_locked_unflagged(act, ctrls, reason, exclude, ret) ==
  IF Candidates(ctrls, exclude) = {}
  THEN /\ active' = None
       /\ controllers' = ctrls
       /\ ret = NoEvent
  ELSE \E next_id \in MinCandidates(ctrls, exclude) :
         /\ active' = next_id
         /\ controllers' = IF act # None /\ act \in DOMAIN ctrls
                           THEN [ctrls EXCEPT ![act].is_active = FALSE]
                           ELSE ctrls
         /\ ret = FailoverEvent(next_id, reason)

\* promote_next_locked on the supervisor state <<act, ctrls>>; ret is the
\* returned Option<FailoverEvent>.
promote_next_locked(act, ctrls, reason, exclude, ret) ==
  IF Candidates(ctrls, exclude) = {}
  THEN /\ active' = None
       /\ controllers' = ctrls
       /\ ret = NoEvent
  ELSE \E next_id \in MinCandidates(ctrls, exclude) :
         LET cleared == IF act # None /\ act \in DOMAIN ctrls
                        THEN [ctrls EXCEPT ![act].is_active = FALSE]
                        ELSE ctrls
         IN /\ active' = next_id
            /\ controllers' = [cleared EXCEPT ![next_id].is_active = TRUE]
            /\ ret = FailoverEvent(next_id, reason)

evaluate(ret) ==
     IF active = None
     THEN promote_next_locked(active, controllers, "Startup", None, ret)
     ELSE IF active \notin Registered
     THEN promote_next_locked(active, controllers, "Missing", active, ret)
     ELSE IF state_evaluate(controllers[active]) = "Missing"
     THEN promote_next_locked(
            active, [controllers EXCEPT ![active].is_active = FALSE],
            "HeartbeatTimeout", active, ret)
     ELSE /\ ret = NoEvent
          /\ UNCHANGED <<active, controllers>>

\* One unit of time passes: every recorded heartbeat is one unit older.
elapse(ctrls) ==
  [id \in DOMAIN ctrls |->
     IF ctrls[id].last_heartbeat = NoHeartbeat \/ ctrls[id].last_heartbeat = MaxElapsed
     THEN ctrls[id]
     ELSE [ctrls[id] EXCEPT !.last_heartbeat = @ + 1]]

Returns == {NoEvent} \cup {FailoverEvent(id, r) : id \in AllIds,
                         r \in {"Startup", "HeartbeatTimeout", "Missing"}}

\* payload.tick of a state without tick metadata.
NoTick == 0 - 1
\* The controller's snapshot directory is missing or empty.
NoSnapshot == [kind |-> "none", tick |-> NoTick]

\* No SnapshotStore has been built.
NoStore == 0

\* No snapshot file at the path, and no state saved yet.
NoState == [grid_id |-> None, controller_id |-> None, tick |-> 0 - 1, captured_at |-> 0]
NoFile == [format |-> None, intact |-> FALSE, layout |-> None, hash |-> NoState,
           state |-> NoState]

\* Option::None of the bridge's writer (the bridge does not exist).
NoWriter == [next_sequence |-> 0 - 1, buffer |-> <<>>]

\* ----------------------------------- the supervisor under arbitrary callers
Empty == [x \in {} |-> None]

\* The grids of the configuration, and the tasks the kernel spawns for each:
\* one per controller and the supervisor-evaluation task.
Grids == {"grid-a", "grid-b"}
KTaskNames == Tasks \cup {"supervisor"}

\* A JSON field that the object does not have, a key a map does not hold.
Absent == "absent"

\* A GridConfig is its controllers map, here the role of each controller id
\* or Absent; NoGridConfig stands for a grid the AppConfig does not have.
NoGridConfig == [c \in Tasks |-> "nogrid"]
NoAppConfig == [g \in Grids |-> NoGridConfig]

\* No Interval has been created; the clock stands at the instant it will be.
\* last is the instant of the last tick, missed tells that it came after a
\* stall, stalled that some tick did.
NoTicker ==
  [behavior |-> "none", period |-> 1, now |-> 0, deadline |-> 0,
   last |-> 0 - 1, missed |-> FALSE, stalled |-> FALSE]

\* RemsOrchestrator::start has not been called.
NotStarted ==
  [via |-> "none", config |-> NoAppConfig, result |-> "none", spawned |-> {}]

\* Option::None of a FailoverStressReport.
NoReport == [failed_controller |-> None, promoted_controller |-> None, reason |-> None]

\* FailoverStressRunner::new has not been called. config is the IndexMap of
\* the configuration in insertion order, built what new returned, at the
\* position of the call in progress, result what the last run_iteration
\* returned with its report, failing its local of that name, active_before
\* (history) the supervisor's active controller when that call began.
NoRunner ==
  [config |-> <<>>, built |-> "none", at |-> "idle", next |-> 0,
   active_controller |-> None, result |-> "none", report |-> NoReport,
   failing |-> None, active_before |-> None, iterations |-> 0]

\* No ChaosEngine has been built.
NoChaos == [scenario |-> <<>>, at |-> "none", next |-> 0, records |-> <<>>]

\* No SelfHealingManager has been built.
NoPolicy == [max_attempts |-> 0, base_delay |-> 0, jitter |-> 0]
NoOutcome == [success |-> FALSE, attempts |-> 0 - 1, reallocated_to |-> None]
\* invoked (history) lists the calls of the restart closure with what each
\* returned; sleeps counts the backoff delays slept, delay is the last one
\* and slept_after the attempt it followed.
NoDelay == 0 - 1
NoHealer ==
  [policy |-> NoPolicy, candidates |-> <<>>, at |-> "none", attempt |-> 0,
   invoked |-> <<>>, sleeps |-> 0, slept_after |-> 0, delay |-> NoDelay,
   outcome |-> NoOutcome]

\* No DegradationTracker has been built. last_level is the field of that
\* name; level is what the last evaluate returned, transitions the number
\* of transitions logged, counter the increments of the metrics counter.
NoTracker ==
  [built |-> FALSE, degraded_threshold |-> 0, critical_threshold |-> 0,
   metrics |-> FALSE, last_level |-> None, level |-> None,
   transitions |-> 0, counter |-> 0, evaluations |-> 0]

\* No SimulationEngine has been built. now is the monotonic clock.
NoEngine ==
  [built |-> FALSE, start |-> 0, cursor |-> 0, draws |-> 0, frames |-> <<>>]
NoSim ==
  [mode |-> "none", scenario |-> <<>>, now |-> 0, a |-> NoEngine, b |-> NoEngine]

\* The caller of the handle between two calls: the value the last call
\* returned, the last call's name and the number of calls made.
Idle(ret, prev, n) ==
  [op |-> "idle", step |-> "idle", grid |-> None, rest |-> {}, todo |-> {},
   target |-> None, ret |-> ret, prev |-> prev, calls |-> n]

Init ==
  /\ active = None
  /\ controllers = Empty
  /\ regOrder = <<>>
  /\ evaluated = FALSE
  /\ pc = [c \in Tasks |-> "start"]
  /\ tick = [c \in Tasks |-> 0]
  /\ records = <<>>
  /\ events = <<>>
  /\ timely = TRUE
  /\ pending = NoEvent
  /\ log = {}
  /\ lost = {}
  /\ standby_at_exit = FALSE
  /\ file = <<>>
  /\ writer = NoWriter
  /\ acks = <<>>
  /\ snap_file = NoFile
  /\ saved = NoState
  /\ retain_last = NoStore
  /\ dir = {}
  /\ clock = 0
  /\ writes = 0
  /\ stored = [c \in Tasks |-> NoSnapshot]
  /\ calls = [c \in Tasks |-> <<>>]
  /\ failed = [c \in Tasks |-> FALSE]
  /\ ktask = [g \in Grids |-> [t \in KTaskNames |-> "running"]]
  /\ shutdown_rx = [g \in Grids |-> [t \in KTaskNames |-> 0]]
  /\ kill_rx = [g \in Grids |-> [c \in Tasks |-> FALSE]]
  /\ handle = [g \in Grids |-> [t \in KTaskNames |-> TRUE]]
  /\ kcontrollers = [g \in Grids |-> Tasks]
  /\ kticks = [g \in Grids |-> 0]
  /\ estops = [g \in Grids |-> 0]
  /\ api = Idle("none", None, 0)
  /\ boot = NotStarted
  /\ ticker = NoTicker
  /\ runner = NoRunner
  /\ chaos = NoChaos
  /\ healer = NoHealer
  /\ tracker = NoTracker
  /\ sim = NoSim

\* A controller registers with the context built from its configuration
\* (ControllerContext::from_config); when it registers again it passes the
\* same context.
Register(id) ==
  /\ \E context \in (IF id \in Registered THEN {controllers[id].context}
                      ELSE Contexts(id)) : register(context)
  /\ UNCHANGED <<regOrder, evaluated, taskVars, coreVars>>

Heartbeat(id) ==
  /\ heartbeat(id)
  /\ UNCHANGED <<regOrder, evaluated, taskVars, coreVars>>

Evaluate ==
  /\ \E ret \in Returns : evaluate(ret)
  /\ evaluated' = TRUE
  /\ UNCHANGED <<regOrder, taskVars, coreVars>>

Advance ==
  /\ controllers' = elapse(controllers)
  /\ controllers' # controllers
  /\ UNCHANGED <<active, regOrder, evaluated, taskVars, coreVars>>

Next ==
  \/ \E id \in Ids : Register(id)
  \/ \E id \in Ids : Heartbeat(id)
  \/ Evaluate
  \/ Advance

Spec == Init /\ [][Next]_vars

\* ------------------------- the supervisor with the registration order kept
\* Controllers of equal role whose failover_order may tie.
TieContexts(id) ==
  {ControllerContext(id, "Secondary", o) : o \in 0..MaxFailoverOrder}

TieRegister(id) ==
  /\ \E context \in (IF id \in Registered THEN {controllers[id].context}
                      ELSE TieContexts(id)) : register(context)
  /\ regOrder' = IF id \in Registered THEN regOrder ELSE Append(regOrder, id)
  /\ UNCHANGED <<evaluated, taskVars, coreVars>>

TieNext ==
  \/ \E id \in Ids : TieRegister(id)
  \/ \E id \in Ids : Heartbeat(id)
  \/ Evaluate
  \/ Advance

TieSpec == Init /\ [][TieNext]_vars

\* ------------------------------ r-ems-orchestrator: bus and controller tasks
PeripheralEvent(controller_id, t) ==
  [controller_id |-> controller_id, tick |-> t,
   command |-> [kind |-> "SetPoint", target_kw |-> 250 + t]]

SnapshotRecord(controller_id, t, act) ==
  [controller_id |-> controller_id, tick |-> t, active |-> act]

Ok == [err |-> None, controller |-> None]
ControllerNotPrimary(controller_id) ==
  [err |-> "ControllerNotPrimary", controller |-> controller_id]

CommitResults == {Ok} \cup {ControllerNotPrimary(c) : c \in Tasks}

\* Variant of commit_check that lets every caller through.
commit_check_open(controller_id, result, passed) ==
  /\ result = Ok
  /\ passed = TRUE

\* PeripheralBus::commit_with_tick, first lock: the supervisor is asked
\* whether the caller is active; on false the call returns the error.
\* passed tells whether the call goes on to the push.
commit_check(controller_id, result, passed) ==
  IF ~is_active(controller_id)
  THEN /\ result = ControllerNotPrimary(controller_id)
       /\ passed = FALSE
  ELSE /\ result = Ok
       /\ passed = TRUE

\* PeripheralBus::commit_with_tick, second lock: the event is pushed.
commit_push(controller_id, t) ==
  events' = Append(events, PeripheralEvent(controller_id, t))

Running(c) == pc[c] \notin {"start", "exited"}

\* No running task's recorded heartbeat is older than its watchdog timeout.
WithinWatchdog(ctrls) ==
  \A c \in Tasks :
    (Running(c) /\ c \in DOMAIN ctrls) =>
       ctrls[c].last_heartbeat <= ctrls[c].context.watchdog_timeout

CtrlRegister(c) ==
  /\ pc[c] = "start"
  /\ register(TaskConfig[c])
  /\ pc' = [pc EXCEPT ![c] = "select"]
  /\ UNCHANGED <<regOrder, evaluated, tick, records, events, timely, coreVars>>

\* ticker.tick() branch of the select: tick += 1; supervisor.heartbeat.
CtrlTick(c) ==
  /\ pc[c] = "select"
  /\ tick[c] < MaxTicks
  /\ tick' = [tick EXCEPT ![c] = @ + 1]
  /\ heartbeat(c)
  /\ pc' = [pc EXCEPT ![c] = "is_active"]
  /\ UNCHANGED <<regOrder, evaluated, records, events, timely, coreVars>>

\* supervisor.is_active, snapshots.record and the branch on active.
CtrlReadActive(c) ==
  /\ pc[c] = "is_active"
  /\ records' = Append(records, SnapshotRecord(c, tick[c], is_active(c)))
  /\ pc' = [pc EXCEPT ![c] = IF is_active(c) THEN "commit" ELSE "select"]
  /\ UNCHANGED <<supVars, regOrder, evaluated, tick, events, timely, coreVars>>

CtrlCommitCheck(c) ==
  /\ pc[c] = "commit"
  /\ \E result \in CommitResults, passed \in BOOLEAN :
       /\ commit_check(c, result, passed)
       /\ pc' = [pc EXCEPT ![c] = IF passed THEN "push" ELSE "select"]
  /\ UNCHANGED <<supVars, regOrder, evaluated, tick, records, events, timely, coreVars>>

CtrlCommitPush(c) ==
  /\ pc[c] = "push"
  /\ commit_push(c, tick[c])
  /\ pc' = [pc EXCEPT ![c] = "select"]
  /\ UNCHANGED <<supVars, regOrder, evaluated, tick, records, timely, coreVars>>

\* kill_controller: the task leaves its loop at the select.
Kill(c) ==
  /\ pc[c] = "select"
  /\ pc' = [pc EXCEPT ![c] = "exited"]
  /\ UNCHANGED <<supVars, regOrder, evaluated, tick, records, events, timely, coreVars>>

\* interval.tick() branch of the supervisor task.
SupEvaluate ==
  /\ \E ret \in Returns : evaluate(ret)
  /\ evaluated' = TRUE
  /\ UNCHANGED <<regOrder, taskVars, coreVars>>

OrchAdvance ==
  /\ controllers' = elapse(controllers)
  /\ controllers' # controllers
  /\ timely' = (timely /\ WithinWatchdog(controllers'))
  /\ UNCHANGED <<active, regOrder, evaluated, pc, tick, records, events, coreVars>>

OrchNext ==
  \/ \E c \in Tasks : CtrlRegister(c)
  \/ \E c \in Tasks : CtrlTick(c)
  \/ \E c \in Tasks : CtrlReadActive(c)
  \/ \E c \in Tasks : CtrlCommitCheck(c)
  \/ \E c \in Tasks : CtrlCommitPush(c)
  \/ \E c \in Tasks : Kill(c)
  \/ SupEvaluate
  \/ OrchAdvance

OrchSpec == Init /\ [][OrchNext]_vars

\* -------------------- r-ems-orchestrator: the bus with its emergency stop
\* Variant of EmergencyStopEvent issued in the name of the active controller.
EmergencyStopEvent_as_active ==
  [controller_id |-> active, tick |-> NoTick, command |-> [kind |-> "EmergencyStop"]]

\* The event PeripheralBus::emergency_stop pushes; tick: None is NoTick.
EmergencyStopEvent ==
  [controller_id |-> SYSTEM, tick |-> NoTick, command |-> [kind |-> "EmergencyStop"]]

\* The positions of the EmergencyStop events of a bus.
Stops(evs) == {i \in 1..Len(evs) : evs[i].command.kind = "EmergencyStop"}

\* PeripheralBus::emergency_stop, called by anybody holding the bus.
BusEmergencyStop ==
  /\ Cardinality(Stops(events)) < MaxStops
  /\ events' = Append(events, EmergencyStopEvent)
  /\ UNCHANGED <<supVars, regOrder, evaluated, pc, tick, records, timely, coreVars>>

\* The calls the bus is checked with: the supervisor's, each made by or for
\* one of the grid's controllers, and PeripheralBus::commit.
StopRegister(c) ==
  /\ register(TaskConfig[c])
  /\ UNCHANGED <<regOrder, evaluated, taskVars, coreVars>>

StopHeartbeat(c) ==
  /\ c \in Registered
  /\ heartbeat(c)
  /\ UNCHANGED <<regOrder, evaluated, taskVars, coreVars>>

\* PeripheralBus::commit(controller_id, SetPoint { target_kw: 10.0 }), made
\* while no other call is in progress.
BusCommit(c) ==
  /\ Len(events) - Cardinality(Stops(events)) < MaxCommits
  /\ \E result \in CommitResults, passed \in BOOLEAN :
       /\ commit_check(c, result, passed)
       /\ IF passed
          THEN events' = Append(events,
                   [PeripheralEvent(c, NoTick) EXCEPT !.command.target_kw = 10])
          ELSE UNCHANGED events
  /\ UNCHANGED <<supVars, regOrder, evaluated, pc, tick, records, timely, coreVars>>

StopNext ==
  \/ \E c \in Tasks : StopRegister(c)
  \/ \E c \in Tasks : StopHeartbeat(c)
  \/ \E c \in Tasks : BusCommit(c)
  \/ Evaluate
  \/ Advance
  \/ BusEmergencyStop

StopSpec == Init /\ [][StopNext]_vars

\* --------------------- r-ems-core: controller tasks and the supervisor task
\* exit_after_ticks of the controllers' configuration: the primary simulates
\* a failure after that many ticks, the secondary has no limit.
exit_after_ticks == [primary |-> MaxTicks]

\* The "failover" entry record_failover appends to the event log.
record_failover(event) ==
  [kind |-> "failover", controller_id |-> event.activated_controller,
   reason |-> event.reason]

\* The primary's task is about to exit: was it active, with the secondary
\* registered?
StandbyAtExit == is_active("primary") /\ "secondary" \in Registered

\* run_controller up to its loop: supervisor.register.
LRegister(c) ==
  /\ pc[c] = "start"
  /\ register(TaskConfig[c])
  /\ pc' = [pc EXCEPT ![c] = "select"]
  /\ UNCHANGED <<regOrder, evaluated, tick, records, events, timely, coreVars>>

\* limiter.tick() branch: tick += 1; supervisor.heartbeat.  The counter of
\* a task without exit_after_ticks stops at MaxTicks, and no decision of
\* that task depends on it.
LTick(c) ==
  /\ pc[c] = "select"
  /\ tick' = [tick EXCEPT ![c] = IF @ < MaxTicks THEN @ + 1 ELSE @]
  /\ heartbeat(c)
  /\ pc' = [pc EXCEPT ![c] = "end_of_tick"]
  /\ UNCHANGED <<regOrder, evaluated, records, events, timely, coreVars>>

\* End of the loop body: break when tick >= exit_after_ticks.
LEndOfTick(c) ==
  /\ pc[c] = "end_of_tick"
  /\ LET exits == c \in DOMAIN exit_after_ticks /\ tick[c] >= exit_after_ticks[c]
     IN /\ pc' = [pc EXCEPT ![c] = IF exits THEN "exited" ELSE "select"]
        /\ standby_at_exit' = IF exits /\ c = "primary" THEN StandbyAtExit
                              ELSE standby_at_exit
  /\ UNCHANGED <<supVars, regOrder, evaluated, tick, records, events, timely,
                 pending, log, lost, logVars, snapVars, storeVars, runVars, kernelVars, boot, ticker, harnessVars, auxVars>>

\* The primary's task is stopped from outside (kill_controller).
LKill(c) ==
  /\ c = "primary"
  /\ pc[c] = "select"
  /\ pc' = [pc EXCEPT ![c] = "exited"]
  /\ standby_at_exit' = StandbyAtExit
  /\ UNCHANGED <<supVars, regOrder, evaluated, tick, records, events, timely,
                 pending, log, lost, logVars, snapVars, storeVars, runVars, kernelVars, boot, ticker, harnessVars, auxVars>>

\* evaluation_interval.tick() branch of the supervisor task: evaluate.
LSupEvaluate ==
  /\ pending = NoEvent
  /\ \E ret \in Returns : evaluate(ret) /\ pending' = ret
  /\ evaluated' = TRUE
  /\ UNCHANGED <<regOrder, taskVars, log, lost, standby_at_exit, logVars, snapVars, storeVars, runVars, kernelVars, boot, ticker, harnessVars, auxVars>>

\* ... and, on Some(event), persistence.record_failover, which appends the
\* entry or fails with an I/O error that is only logged.
LSupRecord ==
  /\ pending # NoEvent
  /\ \/ log' = log \cup {record_failover(pending)} /\ UNCHANGED lost
     \/ lost' = lost \cup {record_failover(pending)} /\ UNCHANGED log
  /\ pending' = NoEvent
  /\ UNCHANGED <<supVars, regOrder, evaluated, taskVars, standby_at_exit, logVars, snapVars, storeVars, runVars, kernelVars, boot, ticker, harnessVars, auxVars>>

\* Time passes, but never so much that the running secondary's recorded
\* heartbeat gets older than its watchdog timeout: the secondary keeps
\* heartbeating in time.
LAdvance ==
  /\ controllers' = elapse(controllers)
  /\ controllers' # controllers
  /\ ("secondary" \in Registered /\ Running("secondary")) =>
        controllers'["secondary"].last_heartbeat
          <= controllers'["secondary"].context.watchdog_timeout
  /\ UNCHANGED <<active, regOrder, evaluated, taskVars, coreVars>>

LiveNext ==
  \/ \E c \in Tasks : LRegister(c)
  \/ \E c \in Tasks : LTick(c)
  \/ \E c \in Tasks : LEndOfTick(c)
  \/ \E c \in Tasks : LKill(c)
  \/ LSupEvaluate
  \/ LSupRecord
  \/ LAdvance

\* Every task is scheduled again and again, timers fire and time passes;
\* nothing obliges anybody to kill the primary.
LiveFairness ==
  /\ \A c \in Tasks : WF_vars(LRegister(c))
  /\ \A c \in Tasks : WF_vars(LTick(c))
  /\ \A c \in Tasks : WF_vars(LEndOfTick(c))
  /\ WF_vars(LSupEvaluate)
  /\ WF_vars(LSupRecord)
  /\ WF_vars(LAdvance)

LiveSpec == Init /\ [][LiveNext]_vars /\ LiveFairness

\* ------------------------------- r-ems-persistence: event log, and its bridge
Callers == Tasks \cup {"supervisor"}

\* The payloads the callers of record_event build: snapshot_saved,
\* snapshot_restored and failover carry grid_id and controller_id,
\* controller_tick and controller_heartbeat do not.
with_ids(kind, g, c) == [kind |-> kind, grid_id |-> g, controller_id |-> c]
without_ids(kind) == [kind |-> kind, grid_id |-> Absent, controller_id |-> Absent]

Payloads ==
  {with_ids("snapshot_saved", g, c) : g \in Grids, c \in Tasks}
    \cup {without_ids("controller_tick")}

\* The header line and the line of an entry (serde_json::to_string), and
\* what serde_json::from_str::<EventLogEntry> makes of a line.
HeaderLine == [line |-> "header", sequence |-> 0, payload |-> without_ids("none")]
to_string(entry) ==
  [line |-> "entry", sequence |-> entry.sequence, payload |-> entry.payload]
is_entry(l) == l.line = "entry"
from_str(l) == [sequence |-> l.sequence, payload |-> l.payload]

\* Lines 2.. of the file (reader.lines().skip(1)).
skip_header(f) == IF Len(f) = 0 THEN <<>> ELSE Tail(f)

\* determine_next_sequence: the sequence of the last entry line, 0 if none.
determine_next_sequence(f) ==
  LET entries == SelectSeq(skip_header(f), is_entry)
  IN IF Len(entries) = 0 THEN 0 ELSE from_str(entries[Len(entries)]).sequence

\* replay: the entries the handler is invoked with, in order.
replay(f) == [i \in 1..Len(skip_header(f)) |-> from_str(skip_header(f)[i])]

\* Variant of matches that compares the grid only.
matches_grid_only(entry, grid_id, controller_id) ==
  entry.payload.grid_id = grid_id

matches(entry, grid_id, controller_id) ==
  /\ entry.payload.grid_id = grid_id
  /\ entry.payload.controller_id = controller_id

\* replay_for_controller: the entries its handler is invoked with.
replay_for_controller(f, grid_id, controller_id) ==
  LET keep(entry) == matches(entry, grid_id, controller_id)
  IN SelectSeq(replay(f), keep)

\* Variant of assign_sequence that hands out the counter without advancing.
assign_sequence_stale(w) == w.next_sequence

\* EventLogWriter::append: next_sequence += 1; entry.sequence = next_sequence.
assign_sequence(w) == w.next_sequence + 1

\* PersistenceBridge::new / EventLogWriter::open: a new or empty file gets
\* the header and the counter starts at 0; otherwise the counter is read
\* from the file.
LogOpen ==
  /\ writer = NoWriter
  /\ IF Len(file) = 0
     THEN /\ file' = <<HeaderLine>>
          /\ writer' = [next_sequence |-> 0, buffer |-> <<>>]
     ELSE /\ file' = file
          /\ writer' = [next_sequence |-> determine_next_sequence(file),
                        buffer |-> <<>>]
  /\ UNCHANGED <<supVars, regOrder, evaluated, taskVars, pending, log, lost,
                 standby_at_exit, acks, snapVars, storeVars, runVars, kernelVars, boot, ticker, harnessVars, auxVars>>

\* PersistenceBridge::record_event by a task, under the writer's mutex:
\* EventLogWriter::append.  The counter advances first.  Then the line is
\* written and flushed; when that fails the call returns Err and the line is
\* either lost or left in the BufWriter, which writes it with the next
\* successful flush.
LogAppend(by, payload) ==
  /\ writer # NoWriter
  /\ writer.next_sequence < MaxAppends
  /\ LET sequence == assign_sequence(writer)
         line == to_string([sequence |-> sequence, payload |-> payload])
     IN \/ /\ file' = file \o writer.buffer \o <<line>>
           /\ writer' = [next_sequence |-> sequence, buffer |-> <<>>]
           /\ acks' = Append(acks, [by |-> by, sequence |-> sequence,
                                    payload |-> payload])
        \/ /\ writer' = [next_sequence |-> sequence, buffer |-> writer.buffer]
           /\ UNCHANGED <<file, acks>>
        \/ /\ writer' = [next_sequence |-> sequence,
                         buffer |-> Append(writer.buffer, line)]
           /\ UNCHANGED <<file, acks>>
  /\ UNCHANGED <<supVars, regOrder, evaluated, taskVars, pending, log, lost,
                 standby_at_exit, snapVars, storeVars, runVars, kernelVars, boot, ticker, harnessVars, auxVars>>

\* PersistenceBridge::flush (also the first step of its replay).
LogFlush ==
  /\ writer # NoWriter
  /\ writer.buffer # <<>>
  /\ file' = file \o writer.buffer
  /\ writer' = [writer EXCEPT !.buffer = <<>>]
  /\ UNCHANGED <<supVars, regOrder, evaluated, taskVars, pending, log, lost,
                 standby_at_exit, acks, snapVars, storeVars, runVars, kernelVars, boot, ticker, harnessVars, auxVars>>

\* The bridge is dropped: the BufWriter flushes what it can.
LogClose ==
  /\ writer # NoWriter
  /\ file' \in {file, file \o writer.buffer}
  /\ writer' = NoWriter
  /\ UNCHANGED <<supVars, regOrder, evaluated, taskVars, pending, log, lost,
                 standby_at_exit, acks, snapVars, storeVars, runVars, kernelVars, boot, ticker, harnessVars, auxVars>>

LogNext ==
  \/ LogOpen
  \/ \E by \in Callers, payload \in Payloads : LogAppend(by, payload)
  \/ LogFlush
  \/ LogClose

LogSpec == Init /\ [][LogNext]_vars

\* ------------------------------------- r-ems-persistence: one snapshot file
Formats == {"json", "cbor"}

\* The ControllerState values saved: grid, controller, the tick of the
\* payload (or none) and captured_at.
ControllerStates ==
  {[grid_id |-> g, controller_id |-> "primary", tick |-> t, captured_at |-> at] :
     g \in Grids, t \in {NoTick} \cup 1..MaxTicks, at \in 0..MaxClock - 1}

\* Variant of compute_hash that covers the identifiers only.
compute_hash_ids_only(state) ==
  [state EXCEPT !.tick = NoTick, !.captured_at = 0]

\* compute_hash: SHA-256 of the JSON serialisation of the whole state.  The
\* digest is modelled by the value it is computed from: equal states have
\* equal digests, and different states are taken to have different ones.
compute_hash(state) == state

\* save_snapshot: the bytes written for the envelope {version, created_at,
\* hash, state}, as JSON or CBOR after the extension of the path.  layout
\* stands for the bytes that do not change what the parser reads
\* (whitespace, escapes); intact is false once the bytes no longer parse.
save_snapshot(state, format) ==
  [format |-> format, intact |-> TRUE, layout |-> "written",
   hash |-> compute_hash(state), state |-> state]

Okay(state) == [ok |-> TRUE, err |-> None, state |-> state]
Err(kind) == [ok |-> FALSE, err |-> kind, state |-> NoState]

\* load_envelope / the first half of load_snapshot: read and parse.
load_envelope(bytes) ==
  IF bytes = NoFile THEN Err("Io")
  ELSE IF ~bytes.intact THEN Err("Serialization")
  ELSE Okay(bytes.state)

\* load_snapshot: parse, recompute the hash of the state, compare.
load_snapshot(bytes) ==
  IF ~load_envelope(bytes).ok THEN load_envelope(bytes)
  ELSE IF bytes.hash # compute_hash(bytes.state) THEN Err("HashMismatch")
  ELSE Okay(bytes.state)

\* verify_snapshot.
verify_snapshot(bytes) ==
  load_envelope(bytes).ok /\ compute_hash(bytes.state) = bytes.hash

SnapUnchanged ==
  UNCHANGED <<supVars, regOrder, evaluated, taskVars, pending, log, lost,
              standby_at_exit, logVars, storeVars, runVars, kernelVars, boot, ticker, harnessVars, auxVars>>

SnapSave(state, format) ==
  /\ snap_file' = save_snapshot(state, format)
  /\ saved' = state
  /\ SnapUnchanged

\* Somebody edits the stored state and leaves the stored hash alone.
SnapEditState(state) ==
  /\ load_envelope(snap_file).ok
  /\ state # snap_file.state
  /\ snap_file' = [snap_file EXCEPT !.state = state]
  /\ UNCHANGED saved
  /\ SnapUnchanged

\* Somebody recomputes the stored hash for the state now stored.
SnapRehash ==
  /\ load_envelope(snap_file).ok
  /\ snap_file.hash # compute_hash(snap_file.state)
  /\ snap_file' = [snap_file EXCEPT !.hash = compute_hash(snap_file.state)]
  /\ UNCHANGED saved
  /\ SnapUnchanged

\* Somebody rewrites the file without changing what it says.
SnapReformat ==
  /\ load_envelope(snap_file).ok
  /\ snap_file.layout = "written"
  /\ snap_file' = [snap_file EXCEPT !.layout = "reformatted"]
  /\ UNCHANGED saved
  /\ SnapUnchanged

\* The file is truncated or overwritten with bytes that do not parse.
SnapCorrupt ==
  /\ load_envelope(snap_file).ok
  /\ snap_file' = [snap_file EXCEPT !.intact = FALSE]
  /\ UNCHANGED saved
  /\ SnapUnchanged

SnapNext ==
  \/ \E state \in ControllerStates, format \in Formats : SnapSave(state, format)
  \/ \E state \in ControllerStates : SnapEditState(state)
  \/ SnapRehash
  \/ SnapReformat
  \/ SnapCorrupt

SnapSpec == Init /\ [][SnapNext]_vars

\* --------------------------------- r-ems-core: SnapshotStore of one controller
\* The names in dir in the order entries.sort() gives them.  A name is
\* "<captured_at.timestamp()>-<controller_id>.json"; for one controller and
\* timestamps of equal length that is the order of the timestamps.
Smallest(names) == CHOOSE n \in names : \A m \in names : n <= m

RECURSIVE take_smallest(_, _)
take_smallest(names, k) ==
  IF k = 0 \/ names = {} THEN {}
  ELSE {Smallest(names)} \cup take_smallest(names \ {Smallest(names)}, k - 1)

\* prune_old: remove the first entries.len() - retain_last names.
prune_old(names) ==
  IF Cardinality(names) <= retain_last THEN names
  ELSE names \ take_smallest(names, Cardinality(names) - retain_last)

\* ControllerSnapshot::file_name of a snapshot captured now.
file_name == clock

StoreUnchanged ==
  UNCHANGED <<supVars, regOrder, evaluated, taskVars, pending, log, lost,
              standby_at_exit, logVars, snapVars, runVars, kernelVars, boot, ticker, harnessVars, auxVars>>

\* SnapshotStore::from_config: retain_last = config.retain_last.max(1).
StoreFromConfig(config_retain_last) ==
  /\ retain_last = NoStore
  /\ retain_last' = IF config_retain_last < 1 THEN 1 ELSE config_retain_last
  /\ UNCHANGED <<dir, clock, writes>>
  /\ StoreUnchanged

\* SnapshotStore::write: persist_snapshot creates or truncates the file of
\* that name, then prune_old.  When persist_snapshot fails the file may or
\* may not have been created, and nothing is pruned.
StoreWrite ==
  /\ retain_last # NoStore
  /\ writes < MaxWrites
  /\ \/ /\ dir' = prune_old(dir \cup {file_name})
        /\ writes' = writes + 1
     \/ /\ dir' \in {dir, dir \cup {file_name}}
        /\ UNCHANGED writes
  /\ UNCHANGED <<retain_last, clock>>
  /\ StoreUnchanged

\* A second passes.
StoreSecond ==
  /\ clock < MaxClock
  /\ clock' = clock + 1
  /\ UNCHANGED <<retain_last, dir, writes>>
  /\ StoreUnchanged

StoreNext ==
  \/ \E config_retain_last \in 0..MaxRetain : StoreFromConfig(config_retain_last)
  \/ StoreWrite
  \/ StoreSecond

StoreSpec == Init /\ [][StoreNext]_vars

\* ------------------- r-ems-core: SnapshotStore, snapshots of any captured_at
\* write takes the snapshot it is given: captured_at is the timestamp of the
\* telemetry frame, which is the time of the call for a synthetic frame and
\* the recorded time for a replayed one.
Largest(names) == CHOOSE n \in names : \A m \in names : m <= n

\* Ok(None) of load_latest.
NoName == 0 - 1

\* load_latest: the last name of the sorted directory, whose file holds the
\* snapshot last written under that name.
load_latest(names) == IF names = {} THEN NoName ELSE Largest(names)

\* SnapshotStore::write of a snapshot captured at captured_at.
StoreWriteAt(captured_at) ==
  /\ retain_last # NoStore
  /\ writes < MaxWrites
  /\ \/ /\ dir' = prune_old(dir \cup {captured_at})
        /\ writes' = writes + 1
     \/ /\ dir' \in {dir, dir \cup {captured_at}}
        /\ UNCHANGED writes
  /\ UNCHANGED <<retain_last, clock>>
  /\ StoreUnchanged

WriteNext ==
  \/ \E config_retain_last \in 0..MaxRetain : StoreFromConfig(config_retain_last)
  \/ \E captured_at \in 0..MaxClock : StoreWriteAt(captured_at)
  \/ StoreSecond

WriteSpec == Init /\ [][WriteNext]_vars

\* ------------------------------ r-ems-core: run_controller, call by call
\* What load_latest can find as the latest file of the directory: nothing,
\* a snapshot of this grid with or without payload.tick, a snapshot that
\* names another grid, or a file that restore_snapshot rejects (hash
\* mismatch, unreadable).
Snapshot(kind, t) == [kind |-> kind, tick |-> t]
LatestKinds ==
  {NoSnapshot, Snapshot("bad", NoTick), Snapshot("foreign", 1)}
    \cup {Snapshot("valid", t) : t \in {NoTick} \cup 1..MaxTicks}

\* One call of the run, for the history: its kind, the tick it belongs to
\* and its outcome (for is_active: the value returned).
Call(kind, t, ok) == [kind |-> kind, tick |-> t, ok |-> ok]

\* Variant of restored_tick that restarts the counter.
restored_tick_reset(snapshot, t) == 0

\* tick = saved_tick when the payload has a tick, else the counter is kept.
restored_tick(snapshot, t) == IF snapshot.tick # NoTick THEN snapshot.tick ELSE t

\* Variant of branch_on in which a standby takes the active branch too.
branch_on_ungated(active_now) == "write"

\* if is_active { ... } else { ... }
branch_on(active_now) == IF active_now THEN "write" ELSE "heartbeat_event"

\* Variant of after_write in which a failed write ends the task.
after_write_propagating(ok) == IF ok THEN "saved_event" ELSE "failed"

\* match snapshot_store.write: Ok records snapshot_saved, Err is logged.
after_write(ok) == IF ok THEN "saved_event" ELSE "tick_event"

RunUnchanged ==
  UNCHANGED <<regOrder, evaluated, records, events, timely, pending, log, lost,
              standby_at_exit, logVars, snapVars, storeVars, kernelVars, boot, ticker, harnessVars, auxVars>>

\* Files an earlier run (or anybody else) left in the directory.
RPreexisting(c, snapshot) ==
  /\ pc[c] = "start"
  /\ stored[c] = NoSnapshot
  /\ snapshot # NoSnapshot
  /\ stored' = [stored EXCEPT ![c] = snapshot]
  /\ UNCHANGED <<supVars, pc, tick, calls, failed>>
  /\ RunUnchanged

\* supervisor.register.
RRegister(c) ==
  /\ pc[c] = "start"
  /\ register(TaskConfig[c])
  /\ pc' = [pc EXCEPT ![c] = "load"]
  /\ UNCHANGED <<tick, stored, calls, failed>>
  /\ RunUnchanged

\* snapshot_store.load_latest(..)?: an error ends run_controller; Ok(None)
\* (nothing there, or another grid's snapshot) goes on to the loop; Ok(Some)
\* restores the tick counter.
RLoadLatest(c) ==
  /\ pc[c] = "load"
  /\ IF stored[c].kind = "bad"
     THEN /\ pc' = [pc EXCEPT ![c] = "failed"]
          /\ calls' = [calls EXCEPT ![c] = Append(@, Call("load_failed", NoTick, FALSE))]
          /\ UNCHANGED tick
     ELSE IF stored[c].kind \in {"none", "foreign"}
     THEN /\ pc' = [pc EXCEPT ![c] = "select"]
          /\ calls' = [calls EXCEPT ![c] = Append(@, Call("load_latest", NoTick, FALSE))]
          /\ UNCHANGED tick
     ELSE /\ pc' = [pc EXCEPT ![c] = "restored"]
          /\ tick' = [tick EXCEPT ![c] = restored_tick(stored[c], @)]
          /\ calls' = [calls EXCEPT ![c] =
                         Append(@, Call("load_latest", stored[c].tick, TRUE))]
  /\ UNCHANGED <<supVars, stored, failed>>
  /\ RunUnchanged

\* persistence.record_snapshot_restored; a failure is logged.
RRecordRestored(c) ==
  /\ pc[c] = "restored"
  /\ \E ok \in BOOLEAN :
       calls' = [calls EXCEPT ![c] = Append(@, Call("snapshot_restored", tick[c], ok))]
  /\ pc' = [pc EXCEPT ![c] = "select"]
  /\ UNCHANGED <<supVars, tick, stored, failed>>
  /\ RunUnchanged

\* The greatest tick number followed: a run restored from tick MaxTicks
\* makes one more tick before exit_after_ticks ends it.
TickCap == MaxTicks + 1

\* limiter.tick(): tick += 1; supervisor.heartbeat.
RTick(c) ==
  /\ pc[c] = "select"
  /\ tick[c] < TickCap
  /\ tick' = [tick EXCEPT ![c] = @ + 1]
  /\ heartbeat(c)
  /\ pc' = [pc EXCEPT ![c] = "is_active"]
  /\ UNCHANGED <<stored, calls, failed>>
  /\ RunUnchanged

\* supervisor.is_active and the branch on it.
RReadActive(c) ==
  /\ pc[c] = "is_active"
  /\ calls' = [calls EXCEPT ![c] = Append(@, Call("is_active", tick[c], is_active(c)))]
  /\ pc' = [pc EXCEPT ![c] = branch_on(is_active(c))]
  /\ UNCHANGED <<supVars, tick, stored, failed>>
  /\ RunUnchanged

\* snapshot_store.write of the active branch.
RWrite(c) ==
  /\ pc[c] = "write"
  /\ \E ok \in BOOLEAN :
       /\ calls' = [calls EXCEPT ![c] = Append(@, Call("snapshot_write", tick[c], ok))]
       /\ stored' = IF ok THEN [stored EXCEPT ![c] = Snapshot("valid", tick[c])]
                    ELSE stored
       /\ failed' = [failed EXCEPT ![c] = @ \/ ~ok]
       /\ pc' = [pc EXCEPT ![c] = after_write(ok)]
  /\ UNCHANGED <<supVars, tick>>
  /\ RunUnchanged

\* One record_* call of the loop body; a failure is logged.
RRecord(c, at, kind, next) ==
  /\ pc[c] = at
  /\ \E ok \in BOOLEAN :
       /\ calls' = [calls EXCEPT ![c] = Append(@, Call(kind, tick[c], ok))]
       /\ failed' = [failed EXCEPT ![c] = @ \/ ~ok]
  /\ pc' = [pc EXCEPT ![c] = next]
  /\ UNCHANGED <<supVars, tick, stored>>
  /\ RunUnchanged

RRecordSaved(c) == RRecord(c, "saved_event", "snapshot_saved", "tick_event")
RRecordTick(c) == RRecord(c, "tick_event", "controller_tick", "end_of_tick")
RRecordHeartbeat(c) ==
  RRecord(c, "heartbeat_event", "controller_heartbeat", "end_of_tick")

\* The controller whose run is followed call by call; the other one is
\* followed by its register and heartbeat calls only.
Followed == "primary"
Others == Tasks \ {Followed}

CoreNext ==
  \/ \E snapshot \in LatestKinds : RPreexisting(Followed, snapshot)
  \/ RRegister(Followed)
  \/ RLoadLatest(Followed)
  \/ RRecordRestored(Followed)
  \/ RTick(Followed)
  \/ RReadActive(Followed)
  \/ RWrite(Followed)
  \/ RRecordSaved(Followed)
  \/ RRecordTick(Followed)
  \/ RRecordHeartbeat(Followed)
  \/ LEndOfTick(Followed)
  \/ \E c \in Others : LRegister(c)
  \/ \E c \in Others : LTick(c)
  \/ \E c \in Others : LEndOfTick(c)
  \/ SupEvaluate
  \/ Advance

CoreSpec == Init /\ [][CoreNext]_vars

\* ------------------- r-ems-core: both controllers of a grid, call by call
\* Both run_controller tasks of a grid, started on whatever their snapshot
\* directories hold, with the supervisor task, in runs where every snapshot write
\* and every event-log append succeeds.
NoIoFailure == failed' = failed

ResumeNext ==
  \/ \E c \in Tasks, snapshot \in LatestKinds : RPreexisting(c, snapshot)
  \/ \E c \in Tasks : RRegister(c)
  \/ \E c \in Tasks : RLoadLatest(c)
  \/ \E c \in Tasks : RRecordRestored(c)
  \/ \E c \in Tasks : RTick(c)
  \/ \E c \in Tasks : RReadActive(c)
  \/ \E c \in Tasks : RWrite(c) /\ NoIoFailure
  \/ \E c \in Tasks : RRecordSaved(c) /\ NoIoFailure
  \/ \E c \in Tasks : RRecordTick(c) /\ NoIoFailure
  \/ \E c \in Tasks : RRecordHeartbeat(c) /\ NoIoFailure
  \/ \E c \in Tasks : LEndOfTick(c)
  \/ SupEvaluate
  \/ Advance

ResumeSpec == Init /\ [][ResumeNext]_vars

\* --------------- r-ems-core: the supervisor task beside the controller tasks
\* GridHandle::spawn on a multi-threaded runtime: the secondary's
\* run_controller call by call, the primary's by its register and heartbeat
\* calls, and the supervisor task, whose evaluate returns the event (the
\* active controller is already changed) and whose next call is
\* record_failover, in runs where every snapshot write and every append of
\* the controller succeeds.
Promoted == "secondary"

OrderNext ==
  \/ RRegister(Promoted)
  \/ RLoadLatest(Promoted)
  \/ RTick(Promoted)
  \/ RReadActive(Promoted)
  \/ RWrite(Promoted) /\ NoIoFailure
  \/ RRecordSaved(Promoted) /\ NoIoFailure
  \/ RRecordTick(Promoted) /\ NoIoFailure
  \/ RRecordHeartbeat(Promoted) /\ NoIoFailure
  \/ LEndOfTick(Promoted)
  \/ \E c \in Tasks \ {Promoted} : LRegister(c)
  \/ \E c \in Tasks \ {Promoted} : LTick(c)
  \/ \E c \in Tasks \ {Promoted} : LEndOfTick(c)
  \/ LSupEvaluate
  \/ LSupRecord
  \/ Advance

OrderSpec == Init /\ [][OrderNext]_vars

\* ----------------------------- r-ems-orchestrator: the kernel's task life
\* Every grid of the OrchestratorSpec has been started: its tasks run, each
\* with a shutdown receiver, each controller with a kill watch, and the
\* handle keeps their JoinHandles.  The loop bodies are taken as one step.
KernelFrame ==
  UNCHANGED <<supVars, regOrder, evaluated, taskVars, pending, log, lost,
              standby_at_exit, logVars, snapVars, storeVars, runVars, boot, ticker, harnessVars, auxVars>>

\* Arguments that name no grid and no controller of the configuration.
UnknownGrid == "grid-x"
UnknownController == "ctrl-x"

\* Variant of exit_task in which the task goes on running.
exit_task_ignored(g, t) == ktask

\* break: the task leaves its loop and ends; its receivers are dropped.
exit_task(g, t) == [ktask EXCEPT ![g][t] = "exited"]

\* ticker.tick() / interval.tick() branch of a task's select.
KTick(g, t) ==
  /\ ktask[g][t] = "running"
  /\ kticks[g] < MaxTicks
  /\ kticks' = [kticks EXCEPT ![g] = @ + 1]
  /\ UNCHANGED <<ktask, shutdown_rx, kill_rx, handle, kcontrollers, estops, api>>
  /\ KernelFrame

\* shutdown.recv() branch of a task's select: break.
KRecvShutdown(g, t) ==
  /\ ktask[g][t] = "running"
  /\ shutdown_rx[g][t] > 0
  /\ ktask' = exit_task(g, t)
  /\ shutdown_rx' = [shutdown_rx EXCEPT ![g][t] = 0]
  /\ UNCHANGED <<kill_rx, handle, kcontrollers, kticks, estops, api>>
  /\ KernelFrame

\* kill_rx.changed() branch of a controller's select: the value is true, break.
KKillChanged(g, c) ==
  /\ ktask[g][c] = "running"
  /\ kill_rx[g][c]
  /\ ktask' = exit_task(g, c)
  /\ kill_rx' = [kill_rx EXCEPT ![g][c] = FALSE]
  /\ shutdown_rx' = [shutdown_rx EXCEPT ![g][c] = 0]
  /\ UNCHANGED <<handle, kcontrollers, kticks, estops, api>>
  /\ KernelFrame

\* broadcast::Sender::send: one message for every receiver still alive.
broadcast(g) ==
  [shutdown_rx EXCEPT ![g] =
     [t \in KTaskNames |-> IF ktask[g][t] = "running" THEN @[t] + 1 ELSE @[t]]]

\* Variant of kill_targets that reaches every controller of the grid.
kill_targets_grid(g, c) == Tasks

\* ControllerRuntime::kill: kill_tx.send(true) of that controller's watch.
kill_targets(g, c) == {c}

\* PeripheralBus::emergency_stop of grid g.
bus_emergency_stop(g) == [estops EXCEPT ![g] = @ + 1]

\* OrchestratorHandle::shutdown is called: the grids are shut down one
\* after the other, in the order of the HashMap.
ApiShutdown ==
  /\ api.op = "idle"
  /\ api.calls < MaxCalls
  /\ \E g \in Grids :
       api' = [api EXCEPT !.op = "shutdown", !.step = "send", !.grid = g,
                          !.rest = Grids \ {g}, !.ret = "pending",
                          !.calls = @ + 1]
  /\ UNCHANGED <<ktask, shutdown_rx, kill_rx, handle, kcontrollers, kticks, estops>>
  /\ KernelFrame

\* OrchestratorHandle::emergency_stop(grid_id): false for an unknown grid;
\* else the bus event, then GridRuntimeHandle::shutdown.
ApiEmergencyStop(grid_id) ==
  /\ api.op = "idle"
  /\ api.calls < MaxCalls
  /\ IF grid_id \in Grids
     THEN /\ estops' = bus_emergency_stop(grid_id)
          /\ api' = [api EXCEPT !.op = "emergency_stop", !.step = "send",
                                !.grid = grid_id, !.ret = "pending",
                                !.calls = @ + 1]
     ELSE /\ api' = Idle("false", "emergency_stop", api.calls + 1)
          /\ UNCHANGED estops
  /\ UNCHANGED <<ktask, shutdown_rx, kill_rx, handle, kcontrollers, kticks>>
  /\ KernelFrame

\* GridRuntimeHandle::shutdown: self.shutdown.send(()) and the clone of the
\* controllers to join.
GridSend ==
  /\ api.step = "send"
  /\ shutdown_rx' = broadcast(api.grid)
  /\ api' = [api EXCEPT !.step = "join", !.todo = kcontrollers[api.grid]]
  /\ UNCHANGED <<ktask, kill_rx, handle, kcontrollers, kticks, estops>>
  /\ KernelFrame

\* ControllerRuntime::join of the next controller: take the JoinHandle; with
\* none left to take the join returns at once.
GridJoin ==
  /\ api.step = "join"
  /\ IF api.todo = {}
     THEN /\ api' = [api EXCEPT !.step = "clear"]
          /\ UNCHANGED handle
     ELSE \E c \in api.todo :
            IF handle[api.grid][c]
            THEN /\ handle' = [handle EXCEPT ![api.grid][c] = FALSE]
                 /\ api' = [api EXCEPT !.step = "await", !.target = c]
            ELSE /\ api' = [api EXCEPT !.todo = @ \ {c}]
                 /\ UNCHANGED handle
  /\ UNCHANGED <<ktask, shutdown_rx, kill_rx, kcontrollers, kticks, estops>>
  /\ KernelFrame

\* task.await of a controller's JoinHandle returns when the task has ended.
GridAwait ==
  /\ api.step = "await"
  /\ ktask[api.grid][api.target] = "exited"
  /\ api' = [api EXCEPT !.step = "join", !.todo = @ \ {api.target},
                        !.target = None]
  /\ UNCHANGED <<ktask, shutdown_rx, kill_rx, handle, kcontrollers, kticks, estops>>
  /\ KernelFrame

\* self.controllers.lock().clear() and self.supervisor_task.lock().take().
GridClear ==
  /\ api.step = "clear"
  /\ kcontrollers' = [kcontrollers EXCEPT ![api.grid] = {}]
  /\ IF handle[api.grid]["supervisor"]
     THEN /\ handle' = [handle EXCEPT ![api.grid]["supervisor"] = FALSE]
          /\ api' = [api EXCEPT !.step = "await_supervisor"]
     ELSE /\ api' = [api EXCEPT !.step = "done"]
          /\ UNCHANGED handle
  /\ UNCHANGED <<ktask, shutdown_rx, kill_rx, kticks, estops>>
  /\ KernelFrame

\* task.await of the supervisor task's JoinHandle.
GridAwaitSupervisor ==
  /\ api.step = "await_supervisor"
  /\ ktask[api.grid]["supervisor"] = "exited"
  /\ api' = [api EXCEPT !.step = "done"]
  /\ UNCHANGED <<ktask, shutdown_rx, kill_rx, handle, kcontrollers, kticks, estops>>
  /\ KernelFrame

\* GridRuntimeHandle::shutdown has returned: emergency_stop returns true,
\* shutdown goes on with the next grid and returns after the last.
GridDone ==
  /\ api.step = "done"
  /\ IF api.op = "emergency_stop"
     THEN api' = Idle("true", "emergency_stop", api.calls)
     ELSE IF api.rest = {}
     THEN api' = Idle("unit", IF api.prev = "emergency_stop"
                              THEN "shutdown_after_stop" ELSE "shutdown",
                      api.calls)
     ELSE \E g \in api.rest :
            api' = [api EXCEPT !.step = "send", !.grid = g, !.rest = @ \ {g}]
  /\ UNCHANGED <<ktask, shutdown_rx, kill_rx, handle, kcontrollers, kticks, estops>>
  /\ KernelFrame

\* OrchestratorHandle::kill_controller: false for an unknown grid or a
\* controller the grid's map does not hold; else runtime.kill().
ApiKillController(grid_id, controller_id) ==
  /\ api.op = "idle"
  /\ api.calls < MaxCalls
  /\ IF grid_id \in Grids /\ controller_id \in kcontrollers[grid_id]
     THEN /\ kill_rx' = [kill_rx EXCEPT ![grid_id] =
                           [c \in Tasks |->
                              IF c \in kill_targets(grid_id, controller_id)
                                   /\ ktask[grid_id][c] = "running"
                              THEN TRUE ELSE @[c]]]
          /\ api' = [api EXCEPT !.op = "kill_controller", !.step = "kill_join",
                                !.grid = grid_id, !.target = controller_id,
                                !.ret = "pending", !.calls = @ + 1]
     ELSE /\ api' = Idle("false", "kill_controller", api.calls + 1)
          /\ UNCHANGED kill_rx
  /\ UNCHANGED <<ktask, shutdown_rx, handle, kcontrollers, kticks, estops>>
  /\ KernelFrame

\* runtime.join() of kill_controller: take the JoinHandle, if still there.
KillJoin ==
  /\ api.step = "kill_join"
  /\ IF handle[api.grid][api.target]
     THEN /\ handle' = [handle EXCEPT ![api.grid][api.target] = FALSE]
          /\ api' = [api EXCEPT !.step = "kill_await"]
     ELSE /\ api' = [api EXCEPT !.step = "kill_done"]
          /\ UNCHANGED handle
  /\ UNCHANGED <<ktask, shutdown_rx, kill_rx, kcontrollers, kticks, estops>>
  /\ KernelFrame

\* task.await of kill_controller's join.
KillAwait ==
  /\ api.step = "kill_await"
  /\ ktask[api.grid][api.target] = "exited"
  /\ api' = [api EXCEPT !.step = "kill_done"]
  /\ UNCHANGED <<ktask, shutdown_rx, kill_rx, handle, kcontrollers, kticks, estops>>
  /\ KernelFrame

\* kill_controller returns true.
KillDone ==
  /\ api.step = "kill_done"
  /\ api' = [Idle("true", "kill_controller", api.calls) EXCEPT
               !.grid = api.grid, !.target = api.target]
  /\ UNCHANGED <<ktask, shutdown_rx, kill_rx, handle, kcontrollers, kticks, estops>>
  /\ KernelFrame

KernelNext ==
  \/ \E g \in Grids, t \in KTaskNames : KTick(g, t)
  \/ \E g \in Grids, t \in KTaskNames : KRecvShutdown(g, t)
  \/ \E g \in Grids, c \in Tasks : KKillChanged(g, c)
  \/ ApiShutdown
  \/ \E g \in Grids \cup {UnknownGrid} : ApiEmergencyStop(g)
  \/ \E g \in Grids \cup {UnknownGrid}, c \in Tasks \cup {UnknownController} :
       ApiKillController(g, c)
  \/ GridSend
  \/ GridJoin
  \/ GridAwait
  \/ GridClear
  \/ GridAwaitSupervisor
  \/ GridDone
  \/ KillJoin
  \/ KillAwait
  \/ KillDone

KernelSpec == Init /\ [][KernelNext]_vars

\* The tokio runtime polls every spawned task and the caller's future: a
\* select branch that stays ready is taken, an await whose task has ended
\* returns, and a call that has started goes on.
KernelFairness ==
  /\ \A g \in Grids, t \in KTaskNames : WF_vars(KRecvShutdown(g, t))
  /\ \A g \in Grids, c \in Tasks : WF_vars(KKillChanged(g, c))
  /\ WF_vars(GridSend) /\ WF_vars(GridJoin) /\ WF_vars(GridAwait)
  /\ WF_vars(GridClear) /\ WF_vars(GridAwaitSupervisor) /\ WF_vars(GridDone)
  /\ WF_vars(KillJoin) /\ WF_vars(KillAwait) /\ WF_vars(KillDone)

KernelLiveSpec == KernelSpec /\ KernelFairness

\* --------------------------------- r-ems-core: RemsOrchestrator::start
\* The configurations: every grid is missing or has, for each controller
\* id, no controller or one of role Primary or Secondary.
GridConfigs == [Tasks -> {"Primary", "Secondary", Absent}]
AppConfigs == [Grids -> GridConfigs \cup {NoGridConfig}]

\* The grids an AppConfig has, and the controllers of one of them.
GridsOf(config) == {g \in Grids : config[g] # NoGridConfig}
ControllersOf(config, g) == {c \in Tasks : config[g][c] # Absent}

\* GridConfig::validate.
grid_validate(grid) ==
  /\ \E c \in Tasks : grid[c] # Absent
  /\ \E c \in Tasks : grid[c] = "Primary"

\* AppConfig::validate (the api section is taken as valid).
validate(config) ==
  /\ GridsOf(config) # {}
  /\ \A g \in GridsOf(config) : grid_validate(config[g])

\* GridHandle::spawn: one task per controller and the supervisor task.
spawn(config, g) == {<<g, t>> : t \in ControllersOf(config, g) \cup {"supervisor"}}

\* The grids come in the order of the configuration's IndexMap.
GridOrder == <<"grid-a", "grid-b">>
Before(g) ==
  {GridOrder[i] : i \in {j \in 1..Len(GridOrder) :
                           \E k \in (j + 1)..Len(GridOrder) : GridOrder[k] = g}}

\* RemsOrchestrator::start: for every grid of the configuration, in order,
\* the snapshot store and the persistence bridge are created (either may
\* fail with an I/O error, which start returns) and the grid's tasks are
\* spawned.  fails_at is the grid whose setup fails, or Absent.
started(config, fails_at) ==
  IF fails_at \in GridsOf(config)
  THEN [via |-> "start", config |-> config, result |-> "io_error",
        spawned |-> UNION {spawn(config, g) :
                             g \in {h \in GridsOf(config) : h \in Before(fails_at)}}]
  ELSE [via |-> "start", config |-> config, result |-> "ok",
        spawned |-> UNION {spawn(config, g) : g \in GridsOf(config)}]

BootFrame ==
  UNCHANGED <<supVars, regOrder, evaluated, taskVars, pending, log, lost,
              standby_at_exit, logVars, snapVars, storeVars, runVars, kernelVars,
              ticker, harnessVars, auxVars>>

\* RemsOrchestrator::new(config, ..).start() with an AppConfig value built
\* by the caller.
BootStart(config, fails_at) ==
  /\ boot = NotStarted
  /\ boot' = started(config, fails_at)
  /\ BootFrame

\* The daemon: AppConfig::load_with_source (from_path: parse, then validate)
\* and, when that returned a configuration, RemsOrchestrator::start.
BootLoad(config, fails_at) ==
  /\ boot = NotStarted
  /\ boot' = IF validate(config)
             THEN [started(config, fails_at) EXCEPT !.via = "load"]
             ELSE [via |-> "load", config |-> config,
                   result |-> "configuration_error", spawned |-> {}]
  /\ BootFrame

BootNext ==
  \/ \E config \in AppConfigs, fails_at \in Grids \cup {Absent} :
       BootStart(config, fails_at)
  \/ \E config \in AppConfigs, fails_at \in Grids \cup {Absent} :
       BootLoad(config, fails_at)

BootSpec == Init /\ [][BootNext]_vars

\* ------------------------------------- r-ems-rt: RateLimiter and interval
\* tokio::time::Interval on a clock of whole units, a unit being longer
\* than the 5 ms by which a tick may be late without counting as missed.
\* MissedTickBehavior::next_timeout: the deadline after a tick that came
\* late (now > timeout).
next_timeout(behavior, timeout, now, period) ==
  CASE behavior = "Burst" -> timeout + period
    [] behavior = "Delay" -> now + period
    [] behavior = "Skip" -> now + period - ((now - timeout) % period)

TickerFrame ==
  UNCHANGED <<supVars, regOrder, evaluated, taskVars, pending, log, lost,
              standby_at_exit, logVars, snapVars, storeVars, runVars, kernelVars,
              boot, harnessVars, auxVars>>

\* RateLimiter::new(period) sets MissedTickBehavior::Delay; the kernel's
\* interval(cfg.heartbeat_interval) keeps the default, Burst.  The first
\* tick is due at once.
TickerNew(behavior, period) ==
  /\ ticker = NoTicker
  /\ ticker' = [NoTicker EXCEPT !.behavior = behavior, !.period = period]
  /\ TickerFrame

\* Time passes; when a deadline is passed with the loop not in tick(), the
\* loop is stalling.
TickerWait ==
  /\ ticker.behavior # "none"
  /\ ticker.now < MaxNow
  /\ ticker' = [ticker EXCEPT !.now = @ + 1]
  /\ TickerFrame

\* The loop has stalled for longer than one period: the tick now due should
\* have fired more than a period ago.
Stalled == ticker.now - ticker.deadline > ticker.period

\* Interval::tick returns: the deadline is reached; the next deadline is
\* timeout + period, or next_timeout when this tick is late.
TickerTick ==
  /\ ticker.behavior # "none"
  /\ ticker.now >= ticker.deadline
  /\ ticker' = [ticker EXCEPT
                  !.deadline = IF ticker.now > ticker.deadline
                               THEN next_timeout(ticker.behavior, ticker.deadline,
                                                 ticker.now, ticker.period)
                               ELSE ticker.deadline + ticker.period,
                  !.last = ticker.now,
                  !.missed = Stalled,
                  !.stalled = @ \/ Stalled]
  /\ TickerFrame

TickerNext ==
  \/ \E period \in 1..MaxPeriod : TickerNew("Delay", period)
  \/ \E period \in 1..MaxPeriod : TickerNew("Burst", period)
  \/ TickerWait
  \/ TickerTick

TickerSpec == Init /\ [][TickerNext]_vars

\* ======================================================================
\* The failover stress harness (r-ems-resilience, StressSpec)
\* ======================================================================
\* FailoverStressRunner owns a RedundancySupervisor of its own: active and
\* controllers are that supervisor's state here.

\* FailoverStressConfig::new: the default evaluation_grace, in units of the
\* watchdog timeout (any positive grace makes the sleep longer than it).
evaluation_grace == 1

\* The ControllerConfig values of a controller of the harness, as the
\* context ControllerContext::from_config builds from each.
StressContexts(id) ==
  {ControllerContext(id, r, o) : r \in {"Primary", "Secondary"},
                                 o \in 0..MaxFailoverOrder}

\* FailoverStressConfig.controllers: an IndexMap, that is the entries in
\* insertion order with distinct keys.
StressConfigs ==
  {<<>>}
  \cup {<<x>> : x \in UNION {StressContexts(id) : id \in Tasks}}
  \cup {<<x, y>> : x \in StressContexts("primary"), y \in StressContexts("secondary")}
  \cup {<<y, x>> : x \in StressContexts("primary"), y \in StressContexts("secondary")}

\* tokio::time::sleep(d): d units of time pass.
RECURSIVE sleep(_, _)
sleep(ctrls, d) == IF d = 0 THEN ctrls ELSE sleep(elapse(ctrls), d - 1)

StressFrame ==
  UNCHANGED <<regOrder, evaluated, taskVars, pending, log, lost, standby_at_exit,
              logVars, snapVars, storeVars, runVars, kernelVars, boot, ticker,
              chaos, healer, auxVars>>

\* FailoverStressRunner::new, up to the loop over the controllers: fewer
\* than two controllers are refused before a supervisor is built.
RunnerNew(config) ==
  /\ runner = NoRunner
  /\ runner' =
       IF Len(config) < 2
       THEN [NoRunner EXCEPT !.config = config, !.built = "err"]
       ELSE [NoRunner EXCEPT !.config = config, !.at = "register", !.next = 1]
  /\ UNCHANGED <<active, controllers>>
  /\ StressFrame

\* new, loop body: supervisor.register(context).
RunnerRegister ==
  /\ runner.at = "register"
  /\ register(runner.config[runner.next])
  /\ runner' = [runner EXCEPT !.at = "heartbeat"]
  /\ StressFrame

\* new, loop body: supervisor.heartbeat(controller_id, now); the first
\* controller of the map becomes active_controller. After the last
\* controller new returns the runner.
RunnerHeartbeat ==
  /\ runner.at = "heartbeat"
  /\ LET controller_id == runner.config[runner.next].controller_id
         last == runner.next = Len(runner.config)
     IN /\ heartbeat(controller_id)
        /\ runner' =
             [runner EXCEPT
                !.active_controller = IF @ = None THEN controller_id ELSE @,
                !.next = @ + 1,
                !.at = IF last THEN "idle" ELSE "register",
                !.built = IF last THEN "ok" ELSE @]
  /\ StressFrame

\* run_iteration: failing = active_controller, supervisor.heartbeat(failing).
IterationHeartbeat ==
  /\ runner.built = "ok"
  /\ runner.at = "idle"
  /\ runner.iterations < MaxIterations
  /\ heartbeat(runner.active_controller)
  /\ runner' = [runner EXCEPT !.at = "sleep",
                              !.failing = runner.active_controller,
                              !.active_before = active]
  /\ StressFrame

\* run_iteration: sleep(config.watchdog_timeout + evaluation_grace), with
\* the configuration of the failing controller.
IterationSleep ==
  /\ runner.at = "sleep"
  /\ controllers' =
       sleep(controllers,
             controllers[runner.failing].context.watchdog_timeout + evaluation_grace)
  /\ runner' = [runner EXCEPT !.at = "evaluate"]
  /\ UNCHANGED active
  /\ StressFrame

\* run_iteration: supervisor.evaluate; without an event the call returns an
\* error, with one it returns the report and the promoted controller becomes
\* active_controller.
IterationEvaluate ==
  /\ runner.at = "evaluate"
  /\ \E ret \in Returns :
       /\ evaluate(ret)
       /\ runner' =
            IF ret = NoEvent
            THEN [runner EXCEPT !.at = "idle", !.iterations = @ + 1,
                                !.result = "err", !.report = NoReport]
            ELSE [runner EXCEPT
                    !.at = "idle", !.iterations = @ + 1, !.result = "ok",
                    !.active_controller = ret.activated_controller,
                    !.report = [failed_controller |-> runner.failing,
                                promoted_controller |-> ret.activated_controller,
                                reason |-> ret.reason]]
  /\ StressFrame

StressNext ==
  \/ \E config \in StressConfigs : RunnerNew(config)
  \/ RunnerRegister
  \/ RunnerHeartbeat
  \/ IterationHeartbeat
  \/ IterationSleep
  \/ IterationEvaluate

StressSpec == Init /\ [][StressNext]_vars

\* ======================================================================
\* The chaos engine next to the kernel (r-ems-resilience, ChaosSpec)
\* ======================================================================
\* ChaosAction, by its label, grid and controller (ChaosAction::controller:
\* None for the actions that name no controller).
ChaosAction(label, grid, controller) ==
  [action |-> label, grid |-> grid, controller |-> controller]

ChaosActions ==
  {ChaosAction(l, g, c) : l \in {"kill_controller", "corrupt_snapshot"},
                          g \in Grids, c \in Tasks}
  \cup {ChaosAction(l, g, None) : l \in {"network_partition", "drop_messages"},
                                  g \in Grids}

\* ChaosScenario.actions: a Vec of actions.
RECURSIVE SeqsUpTo(_, _)
SeqsUpTo(S, n) ==
  IF n = 0 THEN {<<>>}
  ELSE SeqsUpTo(S, n - 1)
       \cup {Append(q, x) : q \in {r \in SeqsUpTo(S, n - 1) : Len(r) = n - 1}, x \in S}

ChaosScenarios == SeqsUpTo(ChaosActions, MaxActions)

\* ChaosEventRecord::from_action: label, grid and controller of the action.
from_action(action) ==
  [action |-> action.action, grid |-> action.grid, controller |-> action.controller]

ChaosFrame ==
  UNCHANGED <<supVars, regOrder, evaluated, taskVars, pending, log, lost,
              standby_at_exit, logVars, snapVars, storeVars, runVars, kernelVars,
              boot, ticker, runner, healer, auxVars>>

\* ChaosEngine::new(scenario, metrics): the engine holds the scenario, the
\* metrics and a generator, and no handle of a kernel.
ChaosNew(scenario) ==
  /\ chaos = NoChaos
  /\ chaos' = [NoChaos EXCEPT !.scenario = scenario, !.at = "built"]
  /\ ChaosFrame

\* execute: records = Vec::with_capacity(..), before the loop.
ChaosExecute ==
  /\ chaos.at = "built"
  /\ chaos' = [chaos EXCEPT !.at = "executing", !.next = 1, !.records = <<>>]
  /\ ChaosFrame

\* execute, loop body for one action: sleep for the delay and the jitter,
\* count the action, log it and push its record.
ChaosExecuteAction ==
  /\ chaos.at = "executing"
  /\ chaos.next <= Len(chaos.scenario)
  /\ chaos' = [chaos EXCEPT
                 !.records = Append(@, from_action(chaos.scenario[chaos.next])),
                 !.next = @ + 1]
  /\ ChaosFrame

\* execute returns Ok(records).
ChaosReturn ==
  /\ chaos.at = "executing"
  /\ chaos.next > Len(chaos.scenario)
  /\ chaos' = [chaos EXCEPT !.at = "done"]
  /\ ChaosFrame

\* The engine runs next to a started kernel whose tasks go on ticking.
ChaosNext ==
  \/ \E scenario \in ChaosScenarios : ChaosNew(scenario)
  \/ ChaosExecute
  \/ ChaosExecuteAction
  \/ ChaosReturn
  \/ \E g \in Grids, t \in KTaskNames : KTick(g, t)

ChaosSpec == Init /\ [][ChaosNext]_vars

\* ======================================================================
\* The self-healing manager (r-ems-resilience, HealSpec)
\* ======================================================================
\* Durations are counted in half milliseconds, so that a Duration shorter
\* than a millisecond exists.
from_millis(ms) == ms * 2
as_millis(d) == d \div 2

Min(a, b) == IF a < b THEN a ELSE b
Max(a, b) == IF a > b THEN a ELSE b

RECURSIVE pow2(_)
pow2(e) == IF e = 0 THEN 1 ELSE 2 * pow2(e - 1)

\* RestartPolicy::new: max_attempts.max(1).
RestartPolicy(max_attempts, base_delay, jitter) ==
  [max_attempts |-> Max(max_attempts, 1), base_delay |-> base_delay, jitter |-> jitter]

\* The RestartPolicy values a caller can write down: the fields are public.
Policies ==
  [max_attempts : 0..MaxAttempts, base_delay : 0..MaxBaseDelay, jitter : 0..MaxJitter]

\* RestartPolicy::backoff_delay: the delays it can return for an attempt,
\* one for each value the generator can draw.
backoff_delay(policy, attempt) ==
  LET exponent == Min(Max(attempt - 1, 0), ExponentCap)
      base == policy.base_delay * pow2(exponent)
  IN IF policy.jitter = 0
     THEN {base}
     ELSE {base + from_millis(jitter_ms) :
             jitter_ms \in 0..Max(as_millis(policy.jitter), 1)}

\* Variant of select_reallocation that never picks a target.
select_reallocation_never(candidates) == {None}

\* SelfHealingManager::select_reallocation: the values it can return, one
\* for each index the generator can draw.
select_reallocation(candidates) ==
  IF Len(candidates) = 0 THEN {None}
  ELSE {candidates[i] : i \in 1..Len(candidates)}

\* SelfHealingOutcome::success and ::failure.
success(attempts) ==
  [success |-> TRUE, attempts |-> attempts, reallocated_to |-> None]
failure(attempts, reallocated_to) ==
  [success |-> FALSE, attempts |-> attempts, reallocated_to |-> reallocated_to]

\* The reallocation_candidates slices passed to attempt_recovery.
CandidateLists == SeqsUpTo({"ctrl-c", "ctrl-d"}, MaxCandidates)

HealFrame ==
  UNCHANGED <<supVars, regOrder, evaluated, taskVars, pending, log, lost,
              standby_at_exit, logVars, snapVars, storeVars, runVars, kernelVars,
              boot, ticker, runner, chaos, auxVars>>

\* SelfHealingManager::new(RestartPolicy::new(..), metrics).
HealerNew(max_attempts, base_delay, jitter) ==
  /\ healer = NoHealer
  /\ healer' = [NoHealer EXCEPT
                  !.policy = RestartPolicy(max_attempts, base_delay, jitter),
                  !.at = "idle"]
  /\ HealFrame

\* SelfHealingManager::new(policy, metrics) with a policy written as a
\* struct literal.
HealerWith(policy) ==
  /\ healer = NoHealer
  /\ healer' = [NoHealer EXCEPT !.policy = policy, !.at = "idle"]
  /\ HealFrame

\* attempt_recovery is called: the loop over 1..=max_attempts begins.
AttemptRecovery(candidates) ==
  /\ healer.at = "idle"
  /\ healer.outcome = NoOutcome
  /\ healer' = [healer EXCEPT !.candidates = candidates, !.at = "loop"]
  /\ HealFrame

\* Loop body: operation(attempt).await returns ok. Ok returns the success
\* outcome; Err breaks after the last attempt and backs off otherwise.
HealAttempt(ok) ==
  /\ healer.at = "loop"
  /\ healer.attempt < healer.policy.max_attempts
  /\ LET attempt == healer.attempt + 1
     IN healer' =
          [healer EXCEPT
             !.attempt = attempt,
             !.invoked = Append(@, [attempt |-> attempt, ok |-> ok]),
             !.at = IF ok THEN "done"
                    ELSE IF attempt = healer.policy.max_attempts THEN "exhausted"
                    ELSE "backoff",
             !.outcome = IF ok THEN success(attempt) ELSE @]
  /\ HealFrame

\* Loop body, Err branch: sleep(policy.backoff_delay(attempt, rng)).
HealBackoff ==
  /\ healer.at = "backoff"
  /\ \E delay \in backoff_delay(healer.policy, healer.attempt) :
       healer' = [healer EXCEPT !.at = "loop", !.sleeps = @ + 1,
                                !.slept_after = healer.attempt, !.delay = delay]
  /\ HealFrame

\* After the loop: select_reallocation and the failure outcome. The loop
\* is left by break, or at once when the range 1..=max_attempts is empty.
HealExhausted ==
  /\ \/ healer.at = "exhausted"
     \/ healer.at = "loop" /\ healer.attempt >= healer.policy.max_attempts
  /\ \E reallocated \in select_reallocation(healer.candidates) :
       healer' = [healer EXCEPT
                    !.at = "done",
                    !.outcome = failure(healer.policy.max_attempts, reallocated)]
  /\ HealFrame

HealNext ==
  \/ \E n \in 0..MaxAttempts, b \in 0..MaxBaseDelay, j \in 0..MaxJitter :
       HealerNew(n, b, j)
  \/ \E policy \in Policies : HealerWith(policy)
  \/ \E candidates \in CandidateLists : AttemptRecovery(candidates)
  \/ \E ok \in BOOLEAN : HealAttempt(ok)
  \/ HealBackoff
  \/ HealExhausted

HealSpec == Init /\ [][HealNext]_vars

\* ======================================================================
\* The degradation tracker (r-ems-resilience, DegradeSpec)
\* ======================================================================
\* Variant of determine whose comparisons are strict.
determine_strict(degraded_threshold, critical_threshold, active_controllers) ==
  IF active_controllers > degraded_threshold THEN "Healthy"
  ELSE IF active_controllers > critical_threshold THEN "Degraded"
  ELSE "Critical"

\* DegradationPolicy::determine.
determine(degraded_threshold, critical_threshold, active_controllers) ==
  IF active_controllers >= degraded_threshold THEN "Healthy"
  ELSE IF active_controllers >= critical_threshold THEN "Degraded"
  ELSE "Critical"

DegradeFrame ==
  UNCHANGED <<supVars, regOrder, evaluated, taskVars, pending, log, lost,
              standby_at_exit, logVars, snapVars, storeVars, runVars, kernelVars,
              boot, ticker, harnessVars, sim>>

\* DegradationTracker::new(DegradationPolicy::new(d, c), total, metrics):
\* the thresholds are taken as given, last_level is None.
TrackerNew(d, c, metrics) ==
  /\ tracker = NoTracker
  /\ tracker' = [NoTracker EXCEPT !.built = TRUE, !.degraded_threshold = d,
                                  !.critical_threshold = c, !.metrics = metrics]
  /\ DegradeFrame

\* DegradationTracker::evaluate(active_controllers).
TrackerEvaluate(active_controllers) ==
  /\ tracker.built
  /\ tracker.evaluations < MaxEvaluations
  /\ LET level == determine(tracker.degraded_threshold, tracker.critical_threshold,
                            active_controllers)
         transition == tracker.last_level = None \/ tracker.last_level # level
     IN tracker' =
          [tracker EXCEPT
             !.level = level,
             !.evaluations = @ + 1,
             !.counter = IF transition /\ tracker.metrics THEN @ + 1 ELSE @,
             !.transitions = IF transition THEN @ + 1 ELSE @,
             !.last_level = IF transition THEN level ELSE @]
  /\ DegradeFrame

DegradeNext ==
  \/ \E d \in 0..MaxThreshold, c \in 0..MaxThreshold, metrics \in BOOLEAN :
       TrackerNew(d, c, metrics)
  \/ \E n \in 0..MaxActive : TrackerEvaluate(n)

DegradeSpec == Init /\ [][DegradeNext]_vars

\* ======================================================================
\* The telemetry engine (r-ems-sim, SimSpec)
\* ======================================================================
\* Two SimulationEngines are built with the same mode, seed and scenario
\* file and receive the same calls; sim.now is the monotonic clock in
\* milliseconds. A frame's values are kept as the terms they are computed
\* from: the scenario frame replayed (0: none), the time t the waveforms
\* are evaluated at (NoTick: none) and the index of the first sample drawn
\* from the seeded generator (0: none).
Engines == {"a", "b"}

Frame(replayed, t, noise) == [replayed |-> replayed, t |-> t, noise |-> noise]

\* ReplayEngine::next_frame on a scenario of n frames: the frame at the
\* cursor, and the cursor moved on cyclically.
replay_next_cursor(cursor, n) == (cursor + 1) % n

\* SimulationEngine::synthetic_frame: elapsed = start.elapsed() +
\* from_millis(tick % 1000); two noise samples are drawn.
synthetic_frame(engine, now, t) ==
  Frame(0, (now - engine.start) + (t % 1000), engine.draws + 1)

\* SimulationEngine::hybridise: one noise sample is added to the frame.
hybridise(engine, replayed) == Frame(replayed, NoTick, engine.draws + 1)

SimFrame ==
  UNCHANGED <<supVars, regOrder, evaluated, taskVars, pending, log, lost,
              standby_at_exit, logVars, snapVars, storeVars, runVars, kernelVars,
              boot, ticker, harnessVars, tracker>>

\* The mode and the scenario file both engines will be built with.
SimConfigure(mode, n) ==
  /\ sim = NoSim
  /\ sim' = [NoSim EXCEPT !.mode = mode, !.scenario = [i \in 1..n |-> i]]
  /\ SimFrame

\* SimulationEngine::new(mode, seed): start = Instant::now().
SimNew(e) ==
  /\ sim.mode # "none"
  /\ ~sim[e].built
  /\ sim' = [sim EXCEPT ![e] = [NoEngine EXCEPT !.built = TRUE, !.start = sim.now]]
  /\ SimFrame

\* Time passes.
SimWait ==
  /\ sim.mode # "none"
  /\ sim.now < MaxWall
  /\ sim' = [sim EXCEPT !.now = @ + 1]
  /\ SimFrame

\* SimulationEngine::next_frame(grid, controller, tick): the k-th call of
\* either engine passes the same tick k - 1.
SimNextFrame(e) ==
  /\ sim[e].built
  /\ Len(sim[e].frames) < MaxFrameCalls
  /\ LET engine == sim[e]
         k == Len(engine.frames)
         n == Len(sim.scenario)
         replays == sim.mode # "Randomized" /\ n > 0
         replayed == sim.scenario[engine.cursor + 1]
         frame == IF replays
                  THEN IF sim.mode = "Hybrid" THEN hybridise(engine, replayed)
                       ELSE Frame(replayed, NoTick, 0)
                  ELSE synthetic_frame(engine, sim.now, k)
     IN sim' = [sim EXCEPT
                  ![e].frames = Append(@, frame),
                  ![e].cursor = IF replays THEN replay_next_cursor(@, n) ELSE @,
                  ![e].draws = IF ~replays THEN @ + 2
                               ELSE IF sim.mode = "Hybrid" THEN @ + 1 ELSE @]
  /\ SimFrame

SimNext ==
  \/ SimConfigure("Randomized", 0)
  \/ \E n \in 0..MaxFrames : SimConfigure("Scenario", n)
  \/ \E n \in 0..MaxFrames : SimConfigure("Hybrid", n)
  \/ \E e \in Engines : SimNew(e)
  \/ SimWait
  \/ \E e \in Engines : SimNextFrame(e)

SimSpec == Init /\ [][SimNext]_vars

\* ======================================================================
\* The supervisor with a live standby (r-ems-redundancy, ElectSpec)
\* ======================================================================
\* Every controller registers once. The controllers of Alive send
\* heartbeats and never let their watchdog expire; the others never send
\* one. evaluate is called again and again.
Alive == {"c3"}

ElectRegister(id) ==
  /\ id \notin Registered
  /\ Register(id)

\* Time passes, but no further than the watchdog of a live controller
\* allows before its next heartbeat.
ElectAdvance ==
  /\ Advance
  /\ \A id \in Alive \cap Registered :
       controllers'[id].last_heartbeat <= controllers'[id].context.watchdog_timeout

ElectNext ==
  \/ \E id \in Ids : ElectRegister(id)
  \/ \E id \in Alive : Heartbeat(id)
  \/ Evaluate
  \/ ElectAdvance

ElectFairness ==
  /\ \A id \in Ids : WF_vars(ElectRegister(id))
  /\ \A id \in Alive : WF_vars(Heartbeat(id))
  /\ WF_vars(Evaluate)
  /\ WF_vars(ElectAdvance)

ElectSpec == Init /\ [][ElectNext]_vars /\ ElectFairness

\* ======================================================================
\* Properties of the supervisor (Spec)
\* ======================================================================
FlaggedActive == {c \in Registered : controllers[c].is_active}

\* C1: in every reachable state at most one registered controller is
\* active, both by is_active() and by the stored is_active flag.
UniquePrimary ==
  /\ Cardinality({c \in Registered : is_active(c)}) <= 1
  /\ Cardinality(FlaggedActive) <= 1

\* A promotion has happened: one controller is active next to a demoted one
\* whose watchdog has expired.
UniquePrimaryWitness ==
  /\ evaluated
  /\ Cardinality(Registered) = 3
  /\ Cardinality(FlaggedActive) = 1
  /\ \E d \in Registered : d # active /\ controllers[d].last_heartbeat > WatchdogTimeout

\* The priority pair the claims speak of: Primary=0 < Secondary=1 <
\* Follower=2 < Observer=3, then failover_order.
RoleRank == [Primary |-> 0, Secondary |-> 1, Follower |-> 2, Observer |-> 3]
StrictlyBefore(a, b) ==
  \/ RoleRank[a.role] < RoleRank[b.role]
  \/ RoleRank[a.role] = RoleRank[b.role] /\ a.failover_order < b.failover_order

\* The active controller has a recorded heartbeat older than its watchdog.
TimedOut ==
  /\ active \in Registered
  /\ controllers[active].last_heartbeat # NoHeartbeat
  /\ controllers[active].last_heartbeat > controllers[active].context.watchdog_timeout

\* C4: when the active controller's last heartbeat is older than its
\* watchdog timeout and another controller is registered, evaluate returns a
\* HeartbeatTimeout event activating another controller, which is active
\* afterwards while the failed one is not.
TimeoutPromotes ==
  [][\A ret \in Returns :
       (TimedOut /\ Registered \ {active} # {} /\ evaluate(ret)) =>
          /\ ret.reason = "HeartbeatTimeout"
          /\ ret.activated_controller \in Registered \ {active}
          /\ active' = ret.activated_controller
          /\ controllers'[active'].is_active
          /\ ~controllers'[active].is_active]_vars

TimeoutPromotesWitness ==
  /\ evaluated
  /\ active \in Registered
  /\ controllers[active].is_active
  /\ controllers[active].last_heartbeat = NoHeartbeat
  /\ \E a \in Registered \ {active} :
       /\ controllers[a].last_heartbeat > WatchdogTimeout
       /\ ~controllers[a].is_active
       /\ StrictlyBefore(controllers[a].context, controllers[active].context)

\* evaluate attempts a promotion: there is no active controller, or the
\* active one has no recorded heartbeat or one older than its watchdog.
PromotionDue ==
  \/ active = None
  \/ active \in Registered /\ controllers[active].last_heartbeat = NoHeartbeat
  \/ TimedOut

\* C7: a promotion activates a controller with the smallest
\* (role_priority, failover_order) among the registered controllers other
\* than the active (failed) one; when there is none, evaluate returns None
\* and active becomes None.
PromotesBest ==
  [][\A ret \in Returns :
       evaluate(ret) =>
         /\ ret # NoEvent =>
              /\ ret.activated_controller \in Registered \ {active}
              /\ active' = ret.activated_controller
              /\ \A o \in Registered \ {active} :
                   ~StrictlyBefore(controllers[o].context,
                                   controllers[ret.activated_controller].context)
         /\ (PromotionDue /\ Registered \ {active} = {}) =>
              (ret = NoEvent /\ active' = None)]_vars

\* The role decided against the failover_order: the active controller has a
\* better role and a worse failover_order than a standby.
PromotesBestWitness ==
  /\ evaluated
  /\ active \in Registered
  /\ \E a, o \in Registered \ {active} :
       /\ a # o
       /\ controllers[a].last_heartbeat > WatchdogTimeout
       /\ RoleRank[controllers[active].context.role] < RoleRank[controllers[o].context.role]
       /\ controllers[active].context.failover_order > controllers[o].context.failover_order

\* C9: registering a new controller makes it active exactly when nobody is
\* active or it is strictly before the active controller in priority, and
\* otherwise leaves active alone; so before any evaluate, once a Primary
\* and a Secondary are registered a Primary is active.
RegisterPreempts ==
  [][\A id \in Ids : \A context \in Contexts(id) :
       (id \notin Registered /\ register(context)) =>
          /\ (active' = id) <=>
               (\/ active = None
                \/ StrictlyBefore(context, controllers[active].context))
          /\ active' # id => active' = active]_vars

PrimaryElected ==
  (/\ ~evaluated
   /\ \E p, q \in Registered :
        /\ controllers[p].context.role = "Primary"
        /\ controllers[q].context.role = "Secondary")
  => (active \in Registered /\ controllers[active].context.role = "Primary")

RegisterElects == RegisterPreempts /\ []PrimaryElected

\* The Secondary registered first and was preempted by the Primary.
RegisterElectsWitness ==
  /\ ~evaluated
  /\ active \in Registered
  /\ controllers[active].context.role = "Primary"
  /\ \E q \in Registered :
       /\ controllers[q].context.role = "Secondary"
       /\ controllers[q].last_heartbeat # NoHeartbeat
       /\ controllers[active].last_heartbeat = NoHeartbeat

Flags(ctrls) == [c \in DOMAIN ctrls |-> ctrls[c].is_active]

RegIndex(id) == CHOOSE i \in 1..Len(regOrder) : regOrder[i] = id

SamePriority(a, b) ==
  /\ RoleRank[a.role] = RoleRank[b.role]
  /\ a.failover_order = b.failover_order

\* C8: among promotion candidates of equal (role_priority, failover_order)
\* the one registered earliest is promoted.
EarliestRegisteredWins ==
  [][\A ret \in Returns :
       (evaluate(ret) /\ ret # NoEvent) =>
          \A o \in Registered \ {active} :
             SamePriority(controllers[o].context,
                          controllers[ret.activated_controller].context)
               => RegIndex(ret.activated_controller) <= RegIndex(o)]_vars

\* ======================================================================
\* The peripheral bus gate and the controller tasks (OrchSpec)
\* ======================================================================
\* C2: every event appended to the bus list by a controller names the
\* controller that is active at the moment of the append.
PromotionSafety ==
  [][Len(events') = Len(events) + 1 =>
       \/ events'[Len(events')].controller_id = SYSTEM
       \/ events'[Len(events')].controller_id = active]_vars

\* C3: a commit for a controller that is not active returns
\* ControllerNotPrimary naming it, does not go on to the push, and leaves
\* the bus list unchanged.
RejectsStandby ==
  [][\A c \in Tasks :
       (pc[c] = "commit" /\ ~is_active(c) /\ pc'[c] # pc[c]) =>
          /\ \A result \in CommitResults, passed \in BOOLEAN :
                commit_check(c, result, passed) =>
                   (result = ControllerNotPrimary(c) /\ ~passed)
          /\ pc'[c] = "select"
          /\ events' = events]_vars

\* A task saw itself active at its last tick, lost the role before its
\* commit, had the commit rejected and is back at the select with no event
\* of that tick on the bus.
RejectsStandbyWitness ==
  \E c \in Tasks :
    /\ pc[c] = "select"
    /\ ~is_active(c)
    /\ \E i \in 1..Len(records) :
         records[i] = SnapshotRecord(c, tick[c], TRUE)
    /\ \A i \in 1..Len(events) : events[i] # PeripheralEvent(c, tick[c])

BothHeartbeating ==
  /\ timely
  /\ \A c \in Tasks :
       /\ Running(c)
       /\ c \in Registered
       /\ controllers[c].last_heartbeat # NoHeartbeat

\* C6: while both tasks keep heartbeating in time, once both have
\* registered and sent a first heartbeat the primary is the active
\* controller.
PrimaryStaysActive == BothHeartbeating => is_active("primary")

\* ======================================================================
\* Failover after the primary's task exits (LiveSpec)
\* ======================================================================
TimeoutEntry ==
  [kind |-> "failover", controller_id |-> "secondary", reason |-> "HeartbeatTimeout"]

PromotedByEvaluate(c) ==
  \E ret \in Returns : evaluate(ret) /\ ret.activated_controller = c

\* A registered controller that is not active is active after the step.
StandbyTurnsActive(c) == c \in Registered /\ ~is_active(c) /\ active' = c

\* C11 as stated: a registered standby becomes active only in an evaluate
\* call that returns a FailoverEvent naming it.
OnlyEvaluatePromotes ==
  [][\A c \in Ids : StandbyTurnsActive(c) => PromotedByEvaluate(c)]_vars

\* C11 amended: a registered standby becomes active only in an evaluate
\* call that returns a FailoverEvent naming it, or in a register call of
\* its own.
OnlyEvaluateOrRegisterPromotes ==
  [][\A c \in Ids :
       StandbyTurnsActive(c) =>
          \/ PromotedByEvaluate(c)
          \/ register(controllers[c].context)]_vars

\* A Primary without any heartbeat is active next to a Secondary whose
\* heartbeat is fresh, after an evaluation had demoted the Primary.
OnlyEvaluateOrRegisterPromotesWitness ==
  /\ evaluated
  /\ active \in Registered
  /\ controllers[active].context.role = "Primary"
  /\ controllers[active].last_heartbeat = NoHeartbeat
  /\ \E o \in Registered \ {active} :
       /\ controllers[o].context.role = "Secondary"
       /\ controllers[o].last_heartbeat = 0

\* ======================================================================
\* The event log (LogSpec)
\* ======================================================================
\* C12: replay invokes the handler once per appended entry, in append
\* order, the i-th invocation carrying sequence i and the payload of the
\* i-th append.
ReplayMatchesAppends ==
  LET r == replay(file)
  IN /\ Len(r) = Len(acks)
     /\ \A i \in 1..Len(r) :
          r[i].sequence = i /\ r[i].payload = acks[i].payload

\* Sequence numbers grow strictly along a sequence of entries or of calls.
StrictlyIncreasing(q) ==
  \A i, j \in 1..Len(q) : i < j => q[i].sequence < q[j].sequence

Flushed == file \o writer.buffer

\* The positions of replay(f) whose payload names grid g and controller c.
Matching(f, g, c) ==
  {i \in 1..Len(replay(f)) :
     replay(f)[i].payload.grid_id = g /\ replay(f)[i].payload.controller_id = c}

Retention ==
  (retain_last # NoStore /\ writes > retain_last)
    => Cardinality(dir) = retain_last


\* ======================================================================
\* Properties of run_controller, call by call (CoreSpec)
\* ======================================================================

\* The positions in calls[c] of the calls of one kind made on tick n.
CallsOf(c, kind, n) ==
  {i \in 1..Len(calls[c]) : calls[c][i].kind = kind /\ calls[c][i].tick = n}

\* supervisor.is_active(c) returned v on tick n.
ReturnedOn(c, n, v) == \E i \in CallsOf(c, "is_active", n) : calls[c][i].ok = v

\* The tick numbers of the calls made so far.
TicksOf(c) == {calls[c][i].tick : i \in 1..Len(calls[c])} \ {NoTick}

\* The body of tick n has run to its end.
TickDone(c, n) ==
  \/ tick[c] > n
  \/ tick[c] = n /\ pc[c] \in {"end_of_tick", "select", "exited"}

ActiveBranch == {"snapshot_write", "snapshot_saved", "controller_tick"}

\* C17: a controller calls the snapshot write and the snapshot_saved and
\* controller_tick appends of a tick only if supervisor.is_active returned
\* true on that tick; on a tick where it returned false it calls no snapshot
\* write, no append of the active branch, and the controller_heartbeat append
\* exactly once by the end of the tick (never more).
Gating ==
  \A c \in Tasks :
    /\ \A i \in 1..Len(calls[c]) :
         calls[c][i].kind \in ActiveBranch => ReturnedOn(c, calls[c][i].tick, TRUE)
    /\ \A n \in TicksOf(c) :
         /\ ReturnedOn(c, n, FALSE) =>
              /\ \A kind \in ActiveBranch : CallsOf(c, kind, n) = {}
              /\ Cardinality(CallsOf(c, "controller_heartbeat", n)) <= 1
              /\ TickDone(c, n) => Cardinality(CallsOf(c, "controller_heartbeat", n)) = 1
         /\ ReturnedOn(c, n, TRUE) => CallsOf(c, "controller_heartbeat", n) = {}

\* One run with an active tick that wrote, recorded snapshot_saved and
\* controller_tick, and a finished standby tick with its heartbeat event.
GatingWitness ==
  \E n, m \in TicksOf(Followed) :
    /\ ReturnedOn(Followed, n, TRUE)
    /\ \A kind \in ActiveBranch : CallsOf(Followed, kind, n) # {}
    /\ ReturnedOn(Followed, m, FALSE)
    /\ TickDone(Followed, m)
    /\ Cardinality(CallsOf(Followed, "controller_heartbeat", m)) = 1


\* The positions of the loop body at which a write or an append is called.
IoPositions == {"write", "saved_event", "tick_event", "heartbeat_event"}

\* A write or an append of tick n of controller c failed.
FailedOn(c, n) ==
  \E i \in 1..Len(calls[c]) :
    /\ calls[c][i].kind \in ActiveBranch \cup {"controller_heartbeat"}
    /\ calls[c][i].tick = n
    /\ ~calls[c][i].ok

\* The step of a controller that returns from a write or an append, failed
\* or not, stays in the loop body and keeps the tick counter.
StaysInLoop(c) ==
  (pc[c] \in IoPositions /\ pc'[c] # pc[c]) =>
     /\ pc'[c] \in {"saved_event", "tick_event", "end_of_tick"}
     /\ tick'[c] = tick[c]

\* The end of a tick leaves the loop only on tick >= exit_after_ticks.
ExitsOnLimitOnly(c) ==
  (pc[c] = "end_of_tick" /\ pc'[c] # pc[c]) =>
     IF c \in DOMAIN exit_after_ticks /\ tick[c] >= exit_after_ticks[c]
     THEN pc'[c] = "exited" ELSE pc'[c] = "select"

\* The next tick adds 1 to the counter and sends the heartbeat.
TicksByOne(c) ==
  (pc[c] = "select" /\ pc'[c] # pc[c]) =>
     /\ pc'[c] = "is_active"
     /\ tick'[c] = tick[c] + 1
     /\ controllers'[c].last_heartbeat = 0

\* C18: a failed SnapshotStore.write or event-log append during a tick does
\* not end the controller loop: the controller goes on to the end of the tick,
\* leaves the loop there only when exit_after_ticks is reached, its next tick
\* is always possible, adds exactly 1 to the tick counter and sends the
\* heartbeat; run_controller never ends with an error once it has ticked.
LoopSurvivesFailures ==
  /\ [][\A c \in {Followed} :
          StaysInLoop(c) /\ ExitsOnLimitOnly(c) /\ TicksByOne(c)]_vars
  /\ [](\A c \in {Followed} :
          /\ pc[c] = "failed" => TicksOf(c) = {}
          /\ (failed[c] /\ pc[c] = "select") => ENABLED RTick(c))

\* A write or an append failed on tick n and the controller is in tick n + 1
\* with its heartbeat just sent.
LoopSurvivesFailuresWitness ==
  \E n \in TicksOf(Followed) :
    /\ FailedOn(Followed, n)
    /\ tick[Followed] = n + 1
    /\ pc[Followed] = "is_active"
    /\ controllers[Followed].last_heartbeat = 0


\* load_latest of this run returned an error.
LoadFailed(c) == Len(calls[c]) > 0 /\ calls[c][1].kind = "load_failed"

\* The controller has entered its tick loop (and may have left it by the
\* exit_after_ticks break).
InLoop(c) ==
  pc[c] \in {"select", "is_active", "end_of_tick", "exited"} \cup IoPositions

\* C19: a controller whose latest snapshot fails hash verification or cannot
\* be read at start enters its tick loop with the tick counter starting at 0
\* and without a restore.
BadSnapshotStartsFresh ==
  \A c \in Tasks :
    LoadFailed(c) =>
      /\ InLoop(c)
      /\ CallsOf(c, "snapshot_restored", tick[c]) = {}
      /\ (TicksOf(c) = {} => tick[c] = 0)


\* load_latest of this run returned the latest snapshot / returned None.
LoadedSome(c) ==
  Len(calls[c]) > 0 /\ calls[c][1].kind = "load_latest" /\ calls[c][1].ok
LoadedNone(c) ==
  Len(calls[c]) > 0 /\ calls[c][1].kind = "load_latest" /\ ~calls[c][1].ok

\* The numbers of the ticks executed so far: those whose is_active call was
\* made, and the one in progress.
ExecutedTicks(c) ==
  {calls[c][i].tick : i \in {j \in 1..Len(calls[c]) : calls[c][j].kind = "is_active"}}
    \cup (IF pc[c] = "is_active" THEN {tick[c]} ELSE {})

\* The first tick executed in this run, if any, is numbered n.
FirstTickIs(c, n) == \A m \in ExecutedTicks(c) : n \in ExecutedTicks(c) /\ n <= m

\* The positions of the calls of one kind, whatever their tick.
Positions(c, kinds) == {i \in 1..Len(calls[c]) : calls[c][i].kind \in kinds}

\* C20: when the latest snapshot of the controller at start has payload.tick
\* = T, the first tick of the run is numbered T + 1 and the snapshot_restored
\* append is called before the loop, so before every controller_tick and
\* controller_heartbeat append of the run; with no snapshot the first tick is
\* numbered 1 and snapshot_restored is never appended.
RestoreTick ==
  \A c \in Tasks :
    /\ (LoadedSome(c) /\ calls[c][1].tick # NoTick) =>
         /\ FirstTickIs(c, calls[c][1].tick + 1)
         /\ InLoop(c) => Positions(c, {"snapshot_restored"}) = {2}
         /\ \A i \in Positions(c, {"controller_tick", "controller_heartbeat"}) : i > 2
    /\ LoadedNone(c) =>
         /\ FirstTickIs(c, 1)
         /\ Positions(c, {"snapshot_restored"}) = {}

\* A run restored from a snapshot with a tick has executed its first tick and
\* appended the event of that tick.
RestoreTickWitness ==
  /\ LoadedSome(Followed)
  /\ calls[Followed][1].tick # NoTick
  /\ ExecutedTicks(Followed) # {}
  /\ Positions(Followed, {"controller_tick", "controller_heartbeat"}) # {}


\* ======================================================================
\* Properties of a grid's two controllers, call by call (ResumeSpec)
\* ======================================================================

\* The primary's run has ended while it was the active controller and the
\* secondary was registered as its standby, and it left a snapshot.
PrimaryFailedWithSnapshot ==
  /\ pc["primary"] = "exited"
  /\ standby_at_exit
  /\ stored["primary"].kind = "valid"

\* This step is the is_active call of a tick of controller c that returns
\* true: the tick whose number the snapshot written next records.
StartsActiveTick(c) ==
  /\ pc[c] = "is_active"
  /\ pc'[c] = "write"

\* C21: the snapshots the promoted standby writes after the primary failed,
\* its first one included, record a tick greater than the tick of the failed
\* primary's last snapshot.
PromotedResumesState ==
  [][(PrimaryFailedWithSnapshot /\ StartsActiveTick("secondary")) =>
        tick["secondary"] > stored["primary"].tick]_vars


\* ======================================================================
\* Properties of the kernel's task life (KernelSpec, KernelLiveSpec)
\* ======================================================================

\* Every task of grid g has ended.
GridStopped(g) == \A t \in KTaskNames : ktask[g][t] = "exited"

\* C22: after shutdown() is called every controller task and every
\* supervisor task of every grid eventually ends and shutdown() returns;
\* after emergency_stop(g) every task of g ends and the call returns true;
\* this includes a shutdown() called after emergency_stop, which finds the
\* grid already shut down.
ShutdownTerminates ==
  /\ (api.op = "shutdown") ~> (api.op = "idle" /\ \A g \in Grids : GridStopped(g))
  /\ \A g \in Grids :
       (api.op = "emergency_stop" /\ api.grid = g) ~>
          (api.op = "idle" /\ GridStopped(g))

\* shutdown() has returned after an emergency_stop that had shut a grid
\* down, and no task is left.
ShutdownTerminatesWitness ==
  /\ api.op = "idle"
  /\ api.prev = "shutdown_after_stop"
  /\ \E g \in Grids : estops[g] > 0
  /\ \A g \in Grids : GridStopped(g)


\* ======================================================================
\* Properties of the bus's emergency stop (StopSpec)
\* ======================================================================

\* C23: PeripheralBus.emergency_stop appends exactly one event, with
\* controller_id SYSTEM and command EmergencyStop, to the bus, keeps the
\* events already there, and leaves the supervisor as it is; it can be
\* called whichever controller is active, and when none is.
EmergencyStopAppends ==
  /\ [][BusEmergencyStop =>
          /\ Len(events') = Len(events) + 1
          /\ SubSeq(events', 1, Len(events)) = events
          /\ events'[Len(events')].controller_id = SYSTEM
          /\ events'[Len(events')].command.kind = "EmergencyStop"
          /\ UNCHANGED supVars]_vars
  /\ [](Cardinality(Stops(events)) < MaxStops => ENABLED BusEmergencyStop)

\* An emergency stop was appended while the secondary was the active
\* controller, after an event of a controller.
EmergencyStopAppendsWitness ==
  /\ Len(events) > 1
  /\ Stops(events) = {Len(events)}
  /\ events[Len(events)].controller_id = SYSTEM
  /\ active = "secondary"


\* kill_controller(g, c) has just returned true.
KillReturnedTrue ==
  api.op = "idle" /\ api.prev = "kill_controller" /\ api.ret = "true"

\* This step is a whole kill_controller call that returns false.
KillReturnsFalse ==
  /\ api.op = "idle"
  /\ api'.op = "idle"
  /\ api'.calls = api.calls + 1
  /\ api'.prev = "kill_controller"

\* C24: while kill_controller(g, c) is in progress no task other than c of
\* g ends, and when it returns true that task has ended; called with an
\* unknown grid or a controller the grid does not hold it returns false and
\* changes no task, channel, handle or map.
KillFrame ==
  /\ [][api.op = "kill_controller" =>
          \A g \in Grids, t \in KTaskNames :
            (g # api.grid \/ t # api.target) => ktask'[g][t] = ktask[g][t]]_vars
  /\ [][KillReturnsFalse =>
          /\ api'.ret = "false"
          /\ UNCHANGED <<ktask, shutdown_rx, kill_rx, handle, kcontrollers>>]_vars
  /\ [](KillReturnedTrue => ktask[api.grid][api.target] = "exited")

\* kill_controller has returned true for the primary of grid-a; every other
\* task of both grids is running.
KillFrameWitness ==
  /\ KillReturnedTrue
  /\ api.grid = "grid-a"
  /\ api.target = "primary"
  /\ ktask["grid-a"]["primary"] = "exited"
  /\ \A g \in Grids, t \in KTaskNames :
       (g # "grid-a" \/ t # "primary") => ktask[g][t] = "running"


\* ======================================================================
\* Properties of RemsOrchestrator::start (BootSpec)
\* ======================================================================

\* C25: start, called with a configuration that has no grids or that has a
\* grid without a Primary controller, returns a configuration error and
\* spawns no task.
StartRejectsInvalid ==
  (boot.via = "start" /\ ~validate(boot.config)) =>
     (boot.result = "configuration_error" /\ boot.spawned = {})


\* ======================================================================
\* Properties of the tickers (TickerSpec)
\* ======================================================================

\* C26: after a stall the ticker fires one tick at once and no second one
\* at the same instant (missed ticks are not replayed as a burst), and the
\* ticks after it are due at instants of the original phase, start +
\* m * period, the start being instant 0.
CoalescesOnPhase ==
  ticker.behavior # "none" =>
    /\ (ticker.missed /\ ticker.last = ticker.now) => ticker.deadline > ticker.now
    /\ ticker.stalled => ticker.deadline % ticker.period = 0

\* C27: every report of run_iteration on a runner built from two controllers
\* names as failed the controller that was active when the call began and
\* as promoted the other one, with reason HeartbeatTimeout; a runner is not
\* built from fewer than two controllers.
StressAlternates ==
  /\ Len(runner.config) < 2 => runner.built # "ok"
  /\ (runner.iterations > 0 /\ runner.at = "idle") =>
       /\ runner.result = "ok"
       /\ runner.report.failed_controller = runner.active_before
       /\ runner.report.promoted_controller \in Tasks \ {runner.report.failed_controller}
       /\ runner.report.reason = "HeartbeatTimeout"

\* C28: once execute has run a kill_controller action for a grid and a
\* controller, that controller's task in the kernel has exited.
ChaosKillExits ==
  \A i \in 1..Len(chaos.records) :
    chaos.records[i].action = "kill_controller" =>
      ktask[chaos.records[i].grid][chaos.records[i].controller] = "exited"

\* C29: attempt_recovery calls the restart closure with the attempt numbers
\* 1, 2, .. and at most max_attempts times, and never again after a
\* success; a success is reported with attempts = the number of calls; a
\* failure is reported only after max_attempts failed calls, with attempts =
\* max_attempts and a reallocated_to that is a member of the candidate
\* list, None exactly when the list is empty.
Invoked == healer.invoked
Reported == healer.at = "done"

RecoveryContract ==
  /\ Len(Invoked) <= healer.policy.max_attempts
  /\ \A i \in 1..Len(Invoked) : Invoked[i].attempt = i
  /\ \A i \in 1..(Len(Invoked) - 1) : ~Invoked[i].ok
  /\ (Reported /\ healer.outcome.success) =>
       /\ Len(Invoked) > 0 /\ Invoked[Len(Invoked)].ok
       /\ healer.outcome.attempts = Len(Invoked)
  /\ (Reported /\ ~healer.outcome.success) =>
       /\ \A i \in 1..Len(Invoked) : ~Invoked[i].ok
       /\ Len(Invoked) = healer.policy.max_attempts
       /\ healer.outcome.attempts = healer.policy.max_attempts
       /\ healer.outcome.reallocated_to
            \in {None} \cup {healer.candidates[i] : i \in 1..Len(healer.candidates)}
       /\ healer.outcome.reallocated_to = None <=> Len(healer.candidates) = 0

\* Two attempts have failed, the policy allows no third one, and the
\* workload has been reallocated to the second of two candidates.
RecoveryContractWitness ==
  /\ Reported
  /\ ~healer.outcome.success
  /\ Len(Invoked) = 2
  /\ Len(healer.candidates) = 2
  /\ healer.outcome.reallocated_to = healer.candidates[2]

\* C30: the delay slept after the n-th failed attempt is base_delay *
\* 2^(n-1) plus a jitter between 0 and policy.jitter, and a recovery that
\* failed max_attempts times has slept max_attempts - 1 times.
BackoffExponential ==
  /\ healer.delay # NoDelay =>
       (healer.delay - healer.policy.base_delay * pow2(healer.slept_after - 1))
          \in 0..healer.policy.jitter
  /\ healer.at = "loop" =>
       healer.sleeps = Len(Invoked) /\ healer.slept_after = Len(Invoked)
  /\ (Reported /\ ~healer.outcome.success) =>
       healer.sleeps = Max(healer.policy.max_attempts - 1, 0)

\* C31: evaluate(n) reports Healthy when n >= degraded_threshold, Degraded
\* when critical_threshold <= n < degraded_threshold and Critical otherwise;
\* it emits a transition (one more logged transition, one more count when
\* metrics are attached, current_level set to the reported level) exactly
\* when it is the first call or the level differs from the one the previous
\* call reported, and otherwise changes nothing but the number of calls.
ReportedLevel(n) ==
  IF n >= tracker.degraded_threshold THEN "Healthy"
  ELSE IF tracker.critical_threshold <= n /\ n < tracker.degraded_threshold
       THEN "Degraded"
  ELSE "Critical"

LevelChanges(n) == tracker.evaluations = 0 \/ tracker.level # ReportedLevel(n)

DegradationLevels ==
  [][\A n \in 0..MaxActive :
       TrackerEvaluate(n) =>
         /\ tracker'.level = ReportedLevel(n)
         /\ tracker'.last_level = ReportedLevel(n)
         /\ LevelChanges(n) =>
              /\ tracker'.transitions = tracker.transitions + 1
              /\ tracker'.counter =
                   tracker.counter + (IF tracker.metrics THEN 1 ELSE 0)
         /\ ~LevelChanges(n) =>
              tracker' = [tracker EXCEPT !.evaluations = @ + 1]]_vars

\* A tracker with thresholds 2 and 1 has reported Healthy, Degraded and
\* Degraded again: two transitions in three calls.
DegradationLevelsWitness ==
  /\ tracker.degraded_threshold = 2
  /\ tracker.critical_threshold = 1
  /\ tracker.evaluations = 3
  /\ tracker.level = "Degraded"
  /\ tracker.transitions = 2
  /\ tracker.counter = 2

\* C32: two engines built with the same mode, seed and scenario and given
\* the same calls return the same frame values at every call, whenever
\* the engines are built and the calls are made.
SameFrames ==
  \A k \in 1..Len(sim.a.frames) :
    k <= Len(sim.b.frames) => sim.a.frames[k] = sim.b.frames[k]

\* C33: when a registered controller keeps sending heartbeats within its
\* watchdog and evaluate keeps being called, eventually a heartbeating
\* controller is active and stays active, whichever controllers of better
\* priority are registered and dead.
LiveStandbyElected == <>[](active \in Alive)

\* C34: in every reachable state of the supervisor the stored is_active
\* flag of a registered controller is set exactly when that controller is
\* the active one, so a promotion never filters on a stale flag.
FlagMatchesActive ==
  \A c \in Registered : controllers[c].is_active <=> active = c

\* evaluate has promoted the worst-ranked of three registered controllers:
\* the other two carry cleared flags although both were active before.
FlagMatchesActiveWitness ==
  /\ evaluated
  /\ Registered = Ids
  /\ active = "c3"
  /\ controllers["c3"].is_active
  /\ controllers["c1"].last_heartbeat = MaxElapsed
  /\ controllers["c2"].last_heartbeat = MaxElapsed

\* C35: a heartbeat changes neither active nor any is_active flag nor the
\* set of registered controllers: it only sets the last_heartbeat of the
\* named controller, and for an unregistered controller it returns Missing
\* and changes nothing. Hence evaluate leaves an active controller that is
\* within its watchdog in place, whoever else is heartbeating.
HeartbeatOnlyStamps ==
  [][/\ \A id \in AllIds :
          heartbeat(id) =>
            /\ active' = active
            /\ DOMAIN controllers' = Registered
            /\ \A c \in Registered :
                 controllers'[c] =
                   IF c = id THEN [controllers[c] EXCEPT !.last_heartbeat = 0]
                   ELSE controllers[c]
     /\ \A ret \in Returns :
          (/\ evaluate(ret)
           /\ active \in Registered
           /\ controllers[active].last_heartbeat # NoHeartbeat
           /\ controllers[active].last_heartbeat
                <= controllers[active].context.watchdog_timeout)
          => active' = active /\ ret = NoEvent]_vars

HeartbeatUnknownIgnored ==
  \A id \in AllIds \ Registered :
    /\ heartbeat_status(id) = {"Missing"}
    /\ ~ENABLED (heartbeat(id) /\ <<active, controllers>>' # <<active, controllers>>)

HeartbeatFrame == HeartbeatOnlyStamps /\ []HeartbeatUnknownIgnored

\* A demoted controller that ranks before the active one has just sent a
\* heartbeat, and the active one is within its watchdog and stays active.
HeartbeatFrameWitness ==
  /\ evaluated
  /\ active \in Registered
  /\ controllers[active].last_heartbeat \in 0..WatchdogTimeout
  /\ \E d \in Registered :
       /\ d # active
       /\ ~controllers[d].is_active
       /\ context_cmp(controllers[d].context, controllers[active].context) = "Less"
       /\ controllers[d].last_heartbeat = 0
  /\ \E u \in Ids : u \notin Registered

\* C36: the failover entry that names c as promoted is in the event log
\* before every controller_tick and snapshot_saved entry c appends as active
\* after that promotion: c appends no such entry while the event that
\* promoted it is still to be recorded by the supervisor task.
FailoverEntryFirst ==
  [][\A c \in Tasks :
       (/\ RRecordSaved(c) \/ RRecordTick(c)
        /\ calls'[c][Len(calls'[c])].ok)
       => ~(pending # NoEvent /\ pending.activated_controller = c)]_vars

\* C37: an append that returns an error consumes no sequence number, and a
\* successful append is given the sequence that follows the last entry of
\* the file.
AppendErrorKeepsSequence ==
  [][\A by \in Callers, payload \in Payloads :
       LogAppend(by, payload) =>
          IF acks' = acks
          THEN writer'.next_sequence = writer.next_sequence
          ELSE acks'[Len(acks')].sequence = determine_next_sequence(file) + 1]_vars

\* C38: right after write(s) returns Ok the file of s is in the directory
\* and load_latest returns s, whatever was written before.
WriteThenLoad ==
  [][\A captured_at \in 0..MaxClock :
       (StoreWriteAt(captured_at) /\ writes' = writes + 1)
       => /\ captured_at \in dir'
          /\ load_latest(dir') = captured_at]_vars

\* C39: every event a controller recorded for itself through the bridge is
\* among the entries a later replay_for_controller of that controller, for
\* its grid, hands to the handler.
ReplaySeesWholeHistory ==
  \A k \in 1..Len(acks) :
    (/\ acks[k].by \in Tasks
     /\ acks[k].payload.controller_id \in {Absent, acks[k].by})
    => \E g \in Grids :
         LET out == replay_for_controller(Flushed, g, acks[k].by)
         IN \E i \in 1..Len(out) : out[i].sequence = acks[k].sequence

\* C40: after FailoverStressRunner::new and after every successful
\* run_iteration, active_controller() names the controller the runner's
\* supervisor reports as active.
RunnerTracksActive ==
  (/\ runner.built = "ok"
   /\ runner.at = "idle"
   /\ runner.iterations = 0 \/ runner.result = "ok")
  => /\ runner.active_controller = active
     /\ is_active(runner.active_controller)

====
